---- MODULE Spec2Model ----
(***************************************************************************)
(* prez-pkglog: the event log engine (src/src/prez_pkglog/logger.py).      *)
(*                                                                         *)
(* The model follows PackageLogger step by step: every system call of the  *)
(* write path (open of the lock file, flock, read, open/truncate of the    *)
(* temp file, write, rename, unlock) is one action, so that threads of one *)
(* process and independent processes interleave exactly where the          *)
(* operating system lets them.  Files are inodes reached through paths:    *)
(* an advisory lock belongs to the inode that was open when it was taken,  *)
(* and a rename changes the inode a path names.                            *)
(***************************************************************************)
EXTENDS Integers, Sequences, FiniteSets, TLC

(* ------------------------------ bounds -------------------------------- *)
\* log_package calls started in a behaviour of Spec (concurrent processes)
MaxCalls == 3
\* log_package calls started in a behaviour of SpecOpen (processes that
\* construct their loggers concurrently)
MaxOpenCalls == 2
\* log_package calls started in a behaviour of SpecThreads (one process)
MaxThreadCalls == 3
\* log_package calls started in a behaviour of SpecSeq (one call at a time)
MaxSeqCalls == 3
\* the wall clock reads 0..MaxClock (dt.datetime.now(), whole seconds)
MaxClock == 1
\* seconds in a calendar day, scaled down
TicksPerDay == 2
\* records in the store a behaviour of SpecRead starts from
MaxStoreLen == 2
\* log_package calls started in a behaviour of SpecRead
MaxReadCalls == 1
\* log_package calls started in a behaviour of SpecSetup
MaxSetupCalls == 1
\* log_package calls started in a behaviour of SpecFault
MaxFaultCalls == 2
\* the notifications delivered to the downloads handler
MaxNotifications == 2
\* log_package calls started in a behaviour of SpecLive
MaxLiveCalls == 2
\* the transactions registered in a behaviour of SpecDnf
MaxTransactions == 2

\* Thread t runs against PackageLogger LoggerOf[t]; each PackageLogger lives
\* in its own process.  Threads 1 and 2 share a logger, thread 3 is another
\* process.
LoggerOf == <<1, 1, 2>>
Threads == DOMAIN LoggerOf
Loggers == {LoggerOf[t] : t \in Threads}

\* package names are character sequences, so that strip() is computed
NameA == <<"a">>
NameB == <<"b">>
\* <<name, manager>> inputs of the concurrent specifications
ConcEvents == {<<NameA, "dnf">>}
ThreadEvents == {<<NameA, "dnf">>, <<NameB, "dnf">>, <<<<>>, "dnf">>}
\* <<name, manager>> inputs of the sequential specification: pairs that
\* share the name only, the manager only, names that need strip(), and
\* invalid names
SeqEvents ==
    {<<NameA, "dnf">>, <<NameA, "apt">>, <<NameB, "dnf">>,
     <<<<" ", "a", " ">>, "dnf">>, <<<<" ">>, "dnf">>, <<<<>>, "dnf">>}
Actions == {"install", "remove"}

(* ------------------------- records and upsert ------------------------- *)
\* a key that is absent from a record (date_removed before any removal)
Absent == 0 - 1

RECURSIVE lstrip(_)
lstrip(s) == IF s # <<>> /\ Head(s) = " " THEN lstrip(Tail(s)) ELSE s

RECURSIVE rstrip(_)
rstrip(s) ==
    IF s # <<>> /\ s[Len(s)] = " " THEN rstrip(SubSeq(s, 1, Len(s) - 1)) ELSE s

\* str.strip()
strip(s) == rstrip(lstrip(s))

UpperCase ==
    <<"A", "B", "C", "D", "E", "F", "G", "H", "I", "J", "K", "L", "M",
      "N", "O", "P", "Q", "R", "S", "T", "U", "V", "W", "X", "Y", "Z">>
LowerCase ==
    <<"a", "b", "c", "d", "e", "f", "g", "h", "i", "j", "k", "l", "m",
      "n", "o", "p", "q", "r", "s", "t", "u", "v", "w", "x", "y", "z">>
\* str.lower(): every upper-case letter is replaced, the rest is kept
lower(s) ==
    [i \in DOMAIN s |->
        IF \E k \in DOMAIN UpperCase : UpperCase[k] = s[i]
        THEN LowerCase[CHOOSE k \in DOMAIN UpperCase : UpperCase[k] = s[i]]
        ELSE s[i]]

\* mutant: only the empty string is rejected, a blank name is logged
invalid_name_empty_only(name) == name = <<>>

\* log_package: "if not name or not name.strip()"
invalid_name(name) == name = <<>> \/ strip(name) = <<>>

\* mutant: the removed flag is not derived from the action
base_entry_never_removed(name, manager, action, now_iso, scope) ==
    [name |-> strip(name), manager |-> manager, action |-> action,
     date |-> now_iso, removed |-> FALSE, scope |-> scope,
     date_removed |-> Absent]

\* log_package: the dictionary handed to _upsert_json_and_toml
base_entry(name, manager, action, now_iso, scope) ==
    [name |-> strip(name), manager |-> manager, action |-> action,
     date |-> now_iso, removed |-> (action = "remove"), scope |-> scope,
     date_removed |-> Absent]

\* mutant: the scan runs forward and stops at the first open record
idx_to_update_first(data, entry, i) ==
    LET hits == {k \in 1 .. i : /\ data[k].name = entry.name
                                /\ data[k].manager = entry.manager
                                /\ ~data[k].removed}
    IN  IF hits = {} THEN 0 ELSE CHOOSE k \in hits : \A j \in hits : k <= j

\* mutant: the scan compares the name only, not the manager
idx_to_update_any_manager(data, entry, i) ==
    LET hits == {k \in 1 .. i : data[k].name = entry.name /\ ~data[k].removed}
    IN  IF hits = {} THEN 0 ELSE CHOOSE k \in hits : \A j \in hits : k >= j

\* the reverse scan "for i in range(len(data) - 1, -1, -1)" from index i
\* down: the last open record of the pair; 0 is None
idx_to_update(data, entry, i) ==
    LET hits == {k \in 1 .. i : /\ data[k].name = entry.name
                                /\ data[k].manager = entry.manager
                                /\ ~data[k].removed}
    IN  IF hits = {} THEN 0 ELSE CHOOSE k \in hits : \A j \in hits : k >= j

\* mutant: every event is appended, a remove never updates in place
upsert_blind_append(data, entry) == Append(data, entry)

\* mutant: an install of a pair that has an open record replaces that record
upsert_merge_install(data, entry) ==
    LET idx == idx_to_update(data, entry, Len(data)) IN
    IF idx # 0
    THEN IF entry.removed
         THEN [data EXCEPT ![idx] = [@ EXCEPT !.removed = TRUE,
                                              !.action = "remove",
                                              !.date_removed = entry.date]]
         ELSE [data EXCEPT ![idx] = entry]
    ELSE Append(data, entry)

\* the in-memory update of _upsert_json_and_toml
upsert(data, entry) ==
    IF entry.removed
    THEN LET idx == idx_to_update(data, entry, Len(data)) IN
         IF idx # 0
         THEN [data EXCEPT ![idx] = [@ EXCEPT !.removed = TRUE,
                                              !.action = "remove",
                                              !.date_removed = entry.date]]
         ELSE Append(data, entry)
    ELSE Append(data, entry)

(* ---------------------------- file contents --------------------------- *)
\* a file of zero bytes
EmptyText == [fmt |-> "empty", body |-> <<>>]
\* an inode nobody refers to
Free == [fmt |-> "free", body |-> <<>>]

\* json.dumps(data, indent=2)
json_dumps(data) == [fmt |-> "json", body |-> data]
\* the text _write_json_streaming builds: "[", json.dump(item, indent=2) of
\* each item with "," between them, and "]"; the items are not indented as
\* json.dumps of the list indents them
json_dump_items(data) ==
    [fmt |-> "json_items", body |-> [i \in 1 .. Len(data) |-> data[i]]]
\* a proper prefix of a text: what an interrupted write leaves behind
truncated(text) == [fmt |-> "truncated", body |-> text.body]
\* json.loads raises on anything that is not a JSON document
json_parses(text) == text.fmt \in {"json", "json_items"}
json_loads(text) == text.body

NoRec == base_entry(<<>>, "", "", Absent, "")
MarkerLine == [kind |-> "# --REMOVED--", rec |-> NoRec]
BlankLine == [kind |-> "blank", rec |-> NoRec]
\* toml.dumps(rec): one key = value line per key of the record
toml_dumps(rec) == [kind |-> "table", rec |-> rec]

\* _rewrite_toml_from_json_data: the lines joined into the mirror's content
\* (the loop over the records, computed by halves)
RECURSIVE toml_lines(_)
toml_lines(data) ==
    IF data = <<>> THEN <<>>
    ELSE IF Len(data) = 1
    THEN (IF data[1].removed THEN <<MarkerLine>> ELSE <<>>)
         \o <<toml_dumps(data[1]), BlankLine>>
    ELSE LET half == Len(data) \div 2 IN
         toml_lines(SubSeq(data, 1, half))
         \o toml_lines(SubSeq(data, half + 1, Len(data)))

toml_content(data) ==
    IF data = <<>> THEN EmptyText ELSE [fmt |-> "toml", body |-> toml_lines(data)]

(* ------------------- scope, roots and permission bits ------------------ *)
\* _setup_paths: the data directory of each scope
UserRoot == "~/.local/share/prez-pkglog"
SystemRoot == "/var/log/prez-pkglog"
NoDir == "none"
setup_paths(scope) == IF scope = "system" THEN SystemRoot ELSE UserRoot

\* _ensure_directories: chmod(0o700) / chmod(0o755) of the directory and
\* chmod(0o600) / chmod(0o644) of the two files
UserDirMode == 448
SystemDirMode == 493
UserFileMode == 384
SystemFileMode == 420
dir_policy(scope) == IF scope = "system" THEN SystemDirMode ELSE UserDirMode
file_policy(scope) == IF scope = "system" THEN SystemFileMode ELSE UserFileMode

\* open(path, "w") and open(path, "a") create a file with the bits 0o666
\* less the bits of the umask
CreateMode == 438
RECURSIVE BitAnd(_, _)
BitAnd(a, b) ==
    IF a = 0 \/ b = 0 THEN 0
    ELSE (a % 2) * (b % 2) + 2 * BitAnd(a \div 2, b \div 2)
created_mode(mask) == CreateMode - BitAnd(CreateMode, mask)

\* the umasks 0o022 and 0o077, the user ids of root and of a plain user
Umasks == {18, 63}
Euids == {0, 1000}

\* the configuration files and what they persist
UserConf == "~/.config/prez-pkglog/prez-pkglog.conf"
SystemConf == "/etc/prez-pkglog/prez-pkglog.conf"
ConfFiles == {UserConf, SystemConf}
\* the known settings a model Config carries: scope, and
\* monitored_extensions as the character sequence of its text
DefaultExtensions ==
    <<".", "r", "p", "m", ",", " ", ".", "d", "e", "b", ",", " ",
      ".", "p", "k", "g", ",", " ", ".", "e", "x", "e", ",", " ",
      ".", "m", "s", "i", ",", " ", ".", "d", "m", "g">>
DefaultSettings ==
    [scope |-> "user", monitored_extensions |-> DefaultExtensions]
\* a configuration file that does not exist
NoFile == [scope |-> "absent", monitored_extensions |-> <<>>]
NoConfig == "none"
\* the command was given no --scope option, or there is no command at all
DefaultOption == "default"
NoOption == "none"

\* mutant: the configured scope is taken as it is
validate_scope_trusting(scope, uid) == <<scope, {}>>

\* Config._validate_scope: <<the scope kept, the report made>>
validate_scope(scope, uid) ==
    IF scope = "system" /\ uid # 0 THEN <<"user", {"warning"}>>
    ELSE <<scope, {}>>

\* Config._load_from_file of the user file over the settings current: the
\* file written by save carries every known key
load_from_file(files, current) ==
    IF files[UserConf] # NoFile THEN files[UserConf] ELSE current

\* Config._load_config over the defaults of __init__
load_config(files) == load_from_file(files, DefaultSettings)

\* cli.get_default_scope: the system file first, then the user file
get_default_scope(files) ==
    IF files[SystemConf].scope = "system" THEN "system"
    ELSE IF files[UserConf] # NoFile THEN files[UserConf].scope
    ELSE "user"

\* cli.require_sudo_for_system_scope: <<the scope passed on, the report>>
require_sudo_for_system_scope(scope, uid) ==
    IF scope = "system" /\ uid # 0 THEN <<"user", {"echo"}>>
    ELSE <<scope, {}>>

\* mutant: save writes nothing
save_nothing(files, current, uid) == files

\* Config.save: the other scope's file is unlinked and the scope's own file
\* written; a plain user can neither unlink nor write the system file, and
\* both failures are caught
save(files, current, uid) ==
    IF current.scope = "system"
    THEN [f \in ConfFiles |->
             IF f = UserConf THEN NoFile
             ELSE IF uid = 0 THEN current ELSE files[f]]
    ELSE [f \in ConfFiles |->
             IF f = UserConf THEN current
             ELSE IF uid = 0 THEN NoFile ELSE files[f]]

\* a cache attribute: <<>> is None, <<v>> holds v
\* Config.__init__: the three caches start as None
new_object(current) ==
    [settings |-> current, scope_cache |-> <<>>, is_system_cache |-> <<>>,
     is_user_cache |-> <<>>]
\* no Config was constructed in the process yet
NoObject == new_object(NoFile)

\* Config.get("scope")
Config_get_scope(c) == c.settings.scope
\* the property Config.scope: the cache when it is filled
Config_scope(c) == IF c.scope_cache = <<>> THEN Config_get_scope(c) ELSE c.scope_cache[1]
\* the properties Config.is_system_scope and Config.is_user_scope
Config_is_system_scope(c) ==
    IF c.is_system_cache = <<>> THEN Config_scope(c) = "system"
    ELSE c.is_system_cache[1]
Config_is_user_scope(c) ==
    IF c.is_user_cache = <<>> THEN Config_scope(c) = "user" ELSE c.is_user_cache[1]

\* Config.save writes its file unless the process may not: only the system
\* file is out of a plain user's reach
save_fails(current, uid) == current.scope = "system" /\ uid # 0

\* values given to set("monitored_extensions", ...)
ExtensionTexts ==
    {DefaultExtensions, <<".", "r", "p", "m">>,
     <<"d", "e", "b", ",", " ", ".", "R", "P", "M">>}
SettingKeys == {"scope", "monitored_extensions"}
SettingValues(key) ==
    IF key = "scope" THEN {"user", "system"} ELSE ExtensionTexts

(* --------------------------- downloads monitor ------------------------ *)
\* str.split(","): the pieces between the commas, the empty ones included
split(s) ==
    LET cuts == {i \in DOMAIN s : s[i] = ","} \cup {0, Len(s) + 1}
        following(c) == CHOOSE d \in cuts : d > c /\ \A e \in cuts : e > c => d <= e
    IN  {SubSeq(s, c + 1, following(c) - 1) : c \in cuts \ {Len(s) + 1}}

\* str.lstrip('.')
RECURSIVE lstrip_dot(_)
lstrip_dot(s) == IF s # <<>> /\ Head(s) = "." THEN lstrip_dot(Tail(s)) ELSE s

\* _log_download: the set built from the configured text
package_extensions(ext_str) ==
    {<<".">> \o lstrip_dot(strip(ext)) : ext \in split(ext_str)}

\* Path.name: what follows the last separator
Path_name(p) ==
    LET seps == {i \in DOMAIN p : p[i] = "/"} \cup {0}
        last == CHOOSE i \in seps : \A j \in seps : j <= i
    IN  SubSeq(p, last + 1, Len(p))

\* Path.suffix: from the last dot of the name on, unless that dot is the
\* first or the last character of the name
Path_suffix(p) ==
    LET name == Path_name(p)
        dots == {i \in DOMAIN name : name[i] = "."}
        i == CHOOSE d \in dots : \A e \in dots : e <= d
    IN  IF dots # {} /\ 1 < i /\ i < Len(name) THEN SubSeq(name, i, Len(name))
        ELSE <<>>

\* st_size of a created file
StatSize == 1024

\* the paths of the notifications: upper and lower case extensions, other
\* extensions, none, a hidden file, a dot in the directory only
SrcPaths ==
    {<<"d", "/", "a", ".", "r", "p", "m">>, <<"d", "/", "a", ".", "R", "P", "M">>,
     <<"d", "/", "a", ".", "d", "e", "b">>, <<"d", "/", "a", ".", "t", "x", "t">>,
     <<"d", "/", "a">>, <<"d", "/", ".", "r", "p", "m">>,
     <<"d", ".", "r", "p", "m", "/", "a">>}
DownloadEvents == [src_path : SrcPaths, is_directory : BOOLEAN]

(* --------------------------- backend registry ------------------------- *)
\* a dictionary without keys
EmptyDict == [n \in {} |-> ""]
\* d[key] = value
Bind(d, key, value) ==
    [n \in DOMAIN d \cup {key} |-> IF n = key THEN value ELSE d[n]]

\* the adapter classes of backends/linux, backends/macos, backends/windows
\* in the order pkgutil.iter_modules yields their modules
Builtin ==
    <<[cls |-> "AptBackend", name |-> <<"a", "p", "t">>],
      [cls |-> "DnfBackend", name |-> <<"d", "n", "f">>],
      [cls |-> "PacmanBackend", name |-> <<"p", "a", "c", "m", "a", "n">>],
      [cls |-> "BrewBackend", name |-> <<"b", "r", "e", "w">>],
      [cls |-> "ChocolateyBackend",
       name |-> <<"c", "h", "o", "c", "o", "l", "a", "t", "e", "y">>],
      [cls |-> "WingetBackend", name |-> <<"w", "i", "n", "g", "e", "t">>]>>
\* a module dropped into backends/windows whose class is named like a
\* built-in one
DropIn == [cls |-> "Dnf5Backend", name |-> <<"d", "n", "f">>]

\* an optional argument: <<>> is None, <<v>> is v
NoName == <<>>
NotAsked == [name |-> NoName, result |-> "not called"]

(* ------------------------------- DNF ---------------------------------- *)
\* package objects of a DNF transaction; raises marks one whose name is not
\* a string, so that name.strip() raises inside log_package
PkgOld == [name |-> NameA, version |-> "1", release |-> "1", raises |-> FALSE]
PkgNew == [name |-> NameA, version |-> "2", release |-> "", raises |-> FALSE]
PkgOther == [name |-> NameB, version |-> "", release |-> "", raises |-> FALSE]
PkgBad == [name |-> <<>>, version |-> "1", release |-> "1", raises |-> TRUE]
\* a first installation, an upgrade, a transaction with a fact that raises,
\* and one that only removes
Upgrade == [install_set |-> {PkgNew}, remove_set |-> {PkgOld}]
Transactions ==
    {[install_set |-> {PkgOld}, remove_set |-> {}],
     Upgrade,
     [install_set |-> {PkgOld, PkgBad}, remove_set |-> {PkgOther}],
     [install_set |-> {}, remove_set |-> {PkgBad}]}

\* DnfBackend: f"{version}-{release}" if version and release else version
full_version(pkg) ==
    IF pkg.version # "" /\ pkg.release # ""
    THEN <<pkg.version, "-", pkg.release>>
    ELSE IF pkg.version # "" THEN <<pkg.version>> ELSE <<>>
\* the plugin: f"{pkg.version}-{pkg.release}"
plugin_version(pkg) == <<pkg.version, "-", pkg.release>>

\* log_package: "if version: base_entry['version'] = version"
with_version(rec, version) ==
    IF version = <<>> THEN rec
    ELSE [f \in DOMAIN rec \cup {"version"} |->
             IF f = "version" THEN version ELSE rec[f]]

\* mutant: the result is that of the last fact
fact_result_of_last(success, raised) == ~raised

\* "if not self._log_package_install(pkg): success = False"
fact_result(success, raised) == success /\ ~raised

\* no DnfBackend and no plugin was constructed
NoBackend ==
    [via |-> "none", enabled |-> FALSE, logger |-> FALSE, phase |-> "idle",
     install_set |-> {}, remove_set |-> {}, success |-> TRUE,
     result |-> "none", called |-> <<>>, count |-> 0, txn |-> <<>>]

\* mutant: discovery never sees a duplicate
duplicate_name_never(discovered, name) == FALSE

\* "if attribute.name in discovered_backends"
duplicate_name(discovered, name) == name \in DOMAIN discovered

\* get_backend: _BACKENDS.get(name.lower()); None has no lower()
lookup(registered, name) ==
    IF name = NoName THEN "AttributeError"
    ELSE IF lower(name[1]) \in DOMAIN registered
    THEN registered[lower(name[1])]
    ELSE "None"

(* ------------------------------- state -------------------------------- *)
JSON == "packages.json"
JSON_TMP == "packages.json.tmp"
TOML == "packages.toml"
TOML_TMP == "packages.toml.tmp"
Paths == {JSON, JSON_TMP, TOML, TOML_TMP}

\* enough inodes for every path and every open file description
Inodes == 1 .. (Cardinality(Paths) + 2 * Cardinality(Threads) + Cardinality(Loggers))

VARIABLES
    inode,        \* inode -> content
    path,         \* path -> inode, 0 when the path does not exist
    lstate,       \* logger -> position in __init__ / "ready" / "dead"
    cfd,          \* logger -> inode open in _ensure_directories, 0 if none
    thread_lock,  \* logger -> <<owner thread or 0, recursion count>>
    toml,         \* whether "import toml" succeeded
    pc,           \* thread -> position in log_package
    entry,        \* thread -> the entry being logged
    data,         \* thread -> the list read and updated in memory
    lock_fp,      \* thread -> inode of the lock file object, 0 if none
    tmp_fd,       \* thread -> inode of the temp file being written, 0 if none
    clock,        \* the wall clock
    calls,        \* log_package calls started
    returned,     \* <<install calls returned, remove calls returned>>
    read_failed,  \* the last query / get_statistics took its except branch
    asked,        \* the filters of the last query: [name, manager, since]
    results,      \* the list the last query returned
    stats,        \* the dictionary the last get_statistics returned
    mode,         \* inode -> permission bits, 0 for an inode that is gone
    dir_mode,     \* permission bits of the data directory, 0 before mkdir
    data_dir,     \* logger -> the root _setup_paths chose
    settings,     \* logger -> config.settings["scope"] of its Config
    warned,       \* logger -> how a scope downgrade was reported, if at all
    option,       \* logger -> the --scope option of its command, or NoOption
    conf_files,   \* configuration file -> persisted settings or NoFile
    euid,         \* os.geteuid() of every process
    umask,        \* the file mode creation mask of every process
    config,       \* a Config object: its settings and its three caches
    persisted,    \* the settings its last successful save() wrote
    BACKENDS,     \* _BACKENDS: manager name -> backend class
    discovered_backends,  \* backends.discovered_backends: name -> class
    backend,      \* the DnfBackend or DNF plugin of the process and the
                  \* transaction it is registering
    imported,     \* the import of the package: modules, next one, raised
    got,          \* the last get_backend: its argument and what it gave
    notified,     \* the file-creation notifications: their count, the last
    logged        \* the log_package calls the handler made for the last one

\* what the read operations leave behind
reads == <<read_failed, asked, results, stats>>
\* the configuration and the data directory
setup == <<dir_mode, data_dir, settings, warned, option, conf_files>>
\* the process environment
host == <<euid, umask>>
\* a Config object used on its own
object == <<config, persisted>>
\* the backend registry of the process
registry == <<BACKENDS, discovered_backends, imported, got, backend>>
\* the downloads monitor
monitor == <<notified, logged>>

\* the package is not imported yet
NotImported(modules) ==
    /\ BACKENDS = EmptyDict
    /\ discovered_backends = EmptyDict
    /\ imported = [modules |-> modules, next |-> 1, raised |-> FALSE]
    /\ got = NotAsked
    /\ backend = NoBackend

\* no file was created in the downloads directory yet
NoNotifications ==
    /\ notified = [count |-> 0, last |-> <<>>]
    /\ logged = <<>>

vars == <<inode, path, lstate, cfd, thread_lock, toml, pc, entry, data,
          lock_fp, tmp_fd, clock, calls, returned, reads, mode, setup, host,
          object, registry, monitor>>

NoEntry == NoRec

\* a thread holds the flock of its lock_fp between flock(LOCK_EX) and
\* flock(LOCK_UN)
HoldsFlock(t) ==
    pc[t] \in {"read", "tmp_open", "stream", "tmp_write", "rename", "unlock",
               "t_tmp_open", "t_tmp_write", "t_rename", "t_unlock"}

\* inodes some path or open file description refers to
Referenced(p, lf, tf, cf) ==
    {p[x] : x \in Paths} \cup {lf[t] : t \in Threads}
    \cup {tf[t] : t \in Threads} \cup {cf[l] : l \in Loggers}

\* the file system after a step: an inode without a link and without an
\* open description is gone
SetFiles(ino, p, lf, tf, cf) ==
    /\ inode' = [i \in Inodes |->
                    IF i \in Referenced(p, lf, tf, cf) THEN ino[i] ELSE Free]
    /\ mode' = [i \in Inodes |->
                   IF i \notin Referenced(p, lf, tf, cf) THEN 0
                   ELSE IF inode[i] = Free THEN created_mode(umask)
                   ELSE mode[i]]
    /\ path' = p
    /\ lock_fp' = lf
    /\ tmp_fd' = tf
    /\ cfd' = cf

files == <<inode, path, lock_fp, tmp_fd, cfd, mode>>

FreshInode == CHOOSE i \in Inodes :
    /\ inode[i] = Free
    /\ \A j \in Inodes : inode[j] = Free => i <= j

\* no read operation has run
NoFilters == [name |-> <<>>, manager |-> <<>>, since |-> <<>>]
NoStats == [total |-> 0, installed |-> 0, removed |-> 0, downloads |-> 0,
            scope |-> ""]
NoReads ==
    /\ read_failed = FALSE
    /\ asked = NoFilters
    /\ results = <<>>
    /\ stats = NoStats

\* every process is a plain user with umask 022, no configuration file
\* exists, and every PackageLogger gets Config(): scope "user"
DefaultConfig ==
    /\ settings = [l \in Loggers |-> "user"]
    /\ warned = [l \in Loggers |-> {}]
    /\ option = [l \in Loggers |-> NoOption]
    /\ conf_files = [f \in ConfFiles |-> NoFile]
    /\ euid = 1000
    /\ umask = 18
    /\ config = NoObject
    /\ persisted = NoFile
    /\ NotImported(Builtin)
    /\ NoNotifications

\* an empty data directory: no PackageLogger was ever constructed on it
InitNew(toml_imported) ==
    /\ inode = [i \in Inodes |-> Free]
    /\ path = [x \in Paths |-> 0]
    /\ lstate = [l \in Loggers |-> "new"]
    /\ cfd = [l \in Loggers |-> 0]
    /\ thread_lock = [l \in Loggers |-> <<0, 0>>]
    /\ toml \in toml_imported
    /\ pc = [t \in Threads |-> "idle"]
    /\ entry = [t \in Threads |-> NoEntry]
    /\ data = [t \in Threads |-> <<>>]
    /\ lock_fp = [t \in Threads |-> 0]
    /\ tmp_fd = [t \in Threads |-> 0]
    /\ clock = 0
    /\ calls = 0
    /\ returned = <<0, 0>>
    /\ NoReads
    /\ mode = [i \in Inodes |-> 0]
    /\ dir_mode = 0
    /\ data_dir = [l \in Loggers |-> NoDir]
    /\ DefaultConfig

\* the directory after every logger's constructor has run: packages.json
\* holds "[]" and packages.toml is empty (_ensure_directories)
InitOpened(toml_imported) ==
    /\ inode = [i \in Inodes |->
                   IF i = 1 THEN json_dumps(<<>>)
                   ELSE IF i = 2 THEN EmptyText ELSE Free]
    /\ path = [x \in Paths |-> IF x = JSON THEN 1 ELSE IF x = TOML THEN 2 ELSE 0]
    /\ lstate = [l \in Loggers |-> "ready"]
    /\ cfd = [l \in Loggers |-> 0]
    /\ thread_lock = [l \in Loggers |-> <<0, 0>>]
    /\ toml \in toml_imported
    /\ pc = [t \in Threads |-> "idle"]
    /\ entry = [t \in Threads |-> NoEntry]
    /\ data = [t \in Threads |-> <<>>]
    /\ lock_fp = [t \in Threads |-> 0]
    /\ tmp_fd = [t \in Threads |-> 0]
    /\ clock = 0
    /\ calls = 0
    /\ returned = <<0, 0>>
    /\ NoReads
    /\ mode = [i \in Inodes |-> IF i \in {1, 2} THEN UserFileMode ELSE 0]
    /\ dir_mode = UserDirMode
    /\ data_dir = [l \in Loggers |-> UserRoot]
    /\ DefaultConfig

\* the loggers are open and the toml module is installed
Init == InitOpened({TRUE})

(* ------------------------- Config and the CLI ------------------------- *)
\* Config(): defaults, _load_config, _validate_scope
config_init(l) ==
    /\ lstate[l] = "new"
    /\ settings[l] = NoConfig
    /\ LET v == validate_scope(load_config(conf_files).scope, euid) IN
          /\ settings' = [settings EXCEPT ![l] = v[1]]
          /\ warned' = [warned EXCEPT ![l] = v[2]]
    /\ UNCHANGED <<files, lstate, thread_lock, toml, pc, entry, data, clock,
                   calls, returned, reads, dir_mode, data_dir, option,
                   conf_files, host, object, registry, monitor>>

\* a command of the CLI up to its PackageLogger(config): the --scope option
\* or its default, the decorator, Config(), config.set("scope", scope) and
\* config.save()
cli_command(l, options) ==
    /\ lstate[l] = "new"
    /\ settings[l] = NoConfig
    /\ \E opt \in options :
          LET asked_scope == IF opt = DefaultOption
                             THEN get_default_scope(conf_files) ELSE opt
              d == require_sudo_for_system_scope(asked_scope, euid)
              v == validate_scope(load_config(conf_files).scope, euid)
          IN  /\ option' = [option EXCEPT ![l] = opt]
              /\ settings' = [settings EXCEPT ![l] = d[1]]
              /\ warned' = [warned EXCEPT ![l] = d[2] \cup v[2]]
              /\ conf_files' =
                    save(conf_files,
                         [load_config(conf_files) EXCEPT !.scope = d[1]], euid)
    /\ UNCHANGED <<files, lstate, thread_lock, toml, pc, entry, data, clock,
                   calls, returned, reads, dir_mode, data_dir, host, object, registry, monitor>>

\* config.set("scope", value) on the Config of a PackageLogger, before or
\* after the logger is constructed: the value is stored as given
config_set(l, scopes) ==
    /\ settings[l] # NoConfig
    /\ \E value \in scopes : settings' = [settings EXCEPT ![l] = value]
    /\ UNCHANGED <<files, lstate, thread_lock, toml, pc, entry, data, clock,
                   calls, returned, reads, dir_mode, data_dir, warned, option,
                   conf_files, host, object, registry, monitor>>

\* config.save() on the Config of a PackageLogger
config_save(l) ==
    /\ settings[l] # NoConfig
    /\ conf_files' =
          save(conf_files,
               [load_config(conf_files) EXCEPT !.scope = settings[l]], euid)
    /\ UNCHANGED <<files, lstate, thread_lock, toml, pc, entry, data, clock,
                   calls, returned, reads, dir_mode, data_dir, settings,
                   warned, option, host, object, registry, monitor>>

\* the DNF plugin's __init__ up to its PackageLogger(self.cfg): _load_config
\* reads "scope = ..." from the plugin's own configuration file, Config()
\* validates what it loaded, and cfg.set("scope", self.scope) stores the
\* plugin's scope as read
plugin_init(l, scopes) ==
    /\ lstate[l] = "new"
    /\ settings[l] = NoConfig
    /\ \E plugin_scope \in scopes :
          /\ settings' = [settings EXCEPT ![l] = plugin_scope]
          /\ warned' = [warned EXCEPT ![l] =
                           validate_scope(load_config(conf_files).scope,
                                          euid)[2]]
    /\ UNCHANGED <<files, lstate, thread_lock, toml, pc, entry, data, clock,
                   calls, returned, reads, dir_mode, data_dir, option,
                   conf_files, host, object, registry, monitor>>

\* Config() in a process that has none: defaults, _load_config,
\* _validate_scope
Config_init ==
    /\ config = NoObject
    /\ LET loaded == load_config(conf_files) IN
          config' = new_object([loaded EXCEPT !.scope =
                                   validate_scope(loaded.scope, euid)[1]])
    /\ UNCHANGED <<files, lstate, thread_lock, toml, pc, entry, data, clock,
                   calls, returned, reads, setup, host, persisted, registry, monitor>>

\* Config.set(key, value): the caches are dropped for the key "scope" only
Config_set_key(keys) ==
    /\ config # NoObject
    /\ \E key \in keys : \E value \in SettingValues(key) :
          config' =
             IF key = "scope"
             THEN new_object([config.settings EXCEPT !.scope = value])
             ELSE [config EXCEPT !.settings.monitored_extensions = value]
    /\ UNCHANGED <<files, lstate, thread_lock, toml, pc, entry, data, clock,
                   calls, returned, reads, setup, host, persisted, registry, monitor>>

Config_set == Config_set_key(SettingKeys)

\* Config.save(): persisted records what a successful save wrote
Config_save ==
    /\ config # NoObject
    /\ conf_files' = save(conf_files, config.settings, euid)
    /\ persisted' = IF save_fails(config.settings, euid) THEN NoFile
                    ELSE config.settings
    /\ UNCHANGED <<files, lstate, thread_lock, toml, pc, entry, data, clock,
                   calls, returned, reads, dir_mode, data_dir, settings,
                   warned, option, host, config, registry, monitor>>

\* Config._load_config() on the object that exists: the keys of the file
\* replace the settings, the caches stay
Config_reload ==
    /\ config # NoObject
    /\ config' = [config EXCEPT
                     !.settings = load_from_file(conf_files, config.settings)]
    /\ UNCHANGED <<files, lstate, thread_lock, toml, pc, entry, data, clock,
                   calls, returned, reads, setup, host, persisted, registry, monitor>>

\* a read of config.scope fills _scope_cache
Config_read_scope ==
    /\ config # NoObject
    /\ config' = [config EXCEPT !.scope_cache = <<Config_scope(config)>>]
    /\ UNCHANGED <<files, lstate, thread_lock, toml, pc, entry, data, clock,
                   calls, returned, reads, setup, host, persisted, registry, monitor>>

\* a read of config.is_system_scope reads config.scope and fills both caches
Config_read_is_system_scope ==
    /\ config # NoObject
    /\ config' = [config EXCEPT !.scope_cache = <<Config_scope(config)>>,
                                !.is_system_cache = <<Config_is_system_scope(config)>>]
    /\ UNCHANGED <<files, lstate, thread_lock, toml, pc, entry, data, clock,
                   calls, returned, reads, setup, host, persisted, registry, monitor>>

Config_read_is_user_scope ==
    /\ config # NoObject
    /\ config' = [config EXCEPT !.scope_cache = <<Config_scope(config)>>,
                                !.is_user_cache = <<Config_is_user_scope(config)>>]
    /\ UNCHANGED <<files, lstate, thread_lock, toml, pc, entry, data, clock,
                   calls, returned, reads, setup, host, persisted, registry, monitor>>

\* the process ends and the next one starts, as the same user or another;
\* what another user saved is not this user's to find again
new_process ==
    /\ config # NoObject
    /\ \E uid \in Euids :
          /\ euid' = uid
          /\ persisted' = IF uid = euid THEN persisted ELSE NoFile
    /\ config' = NoObject
    /\ UNCHANGED <<files, lstate, thread_lock, toml, pc, entry, data, clock,
                   calls, returned, reads, setup, umask, registry, monitor>>

\* "import prez_pkglog", one module of backends/ at a time: _BACKENDS is
\* created empty, "from . import backends" fills discovered_backends and
\* raises ImportError on a name it holds already; nothing copies
\* discovered_backends into _BACKENDS
import_module ==
    /\ ~imported.raised
    /\ imported.next <= Len(imported.modules)
    /\ LET m == imported.modules[imported.next] IN
          IF duplicate_name(discovered_backends, m.name)
          THEN /\ imported' = [imported EXCEPT !.raised = TRUE]
               /\ UNCHANGED discovered_backends
          ELSE /\ imported' = [imported EXCEPT !.next = @ + 1]
               /\ discovered_backends' =
                     Bind(discovered_backends, m.name, m.cls)
    /\ UNCHANGED <<files, lstate, thread_lock, toml, pc, entry, data, clock,
                   calls, returned, reads, setup, host, object, BACKENDS, got,
                   backend, monitor>>

\* before the process starts, a module is added to backends/windows
drop_in ==
    /\ imported = [modules |-> Builtin, next |-> 1, raised |-> FALSE]
    /\ imported' = [imported EXCEPT !.modules = Append(Builtin, DropIn)]
    /\ UNCHANGED <<files, lstate, thread_lock, toml, pc, entry, data, clock,
                   calls, returned, reads, setup, host, object, BACKENDS,
                   discovered_backends, got, backend, monitor>>

\* the package is imported and its functions can be called
Imported == ~imported.raised /\ imported.next > Len(imported.modules)

\* register_backend(name, backend_class): _BACKENDS[name] = backend_class
register_backend(names, classes) ==
    /\ Imported
    /\ \E name \in names, cls \in classes :
          BACKENDS' = Bind(BACKENDS, name, cls)
    /\ UNCHANGED <<files, lstate, thread_lock, toml, pc, entry, data, clock,
                   calls, returned, reads, setup, host, object,
                   discovered_backends, imported, got, backend, monitor>>

\* get_backend(name): an instance of the class found, None, or the
\* AttributeError of None.lower()
get_backend(names) ==
    /\ Imported
    /\ \E name \in names :
          got' = [name |-> name, result |-> lookup(BACKENDS, name)]
    /\ UNCHANGED <<files, lstate, thread_lock, toml, pc, entry, data, clock,
                   calls, returned, reads, setup, host, object, BACKENDS,
                   discovered_backends, imported, backend, monitor>>

(* ------------------- PackageLogger.__init__ -------------------------- *)
Quiet ==
    /\ \A t \in Threads : pc[t] \in {"idle", "dead"}
    /\ \A l \in Loggers : lstate[l] \in {"new", "ready", "dead"}

\* _setup_paths, then _ensure_directories up to its first look at the
\* store: mkdir(parents=True, exist_ok=True), chmod of the directory, and
\* "if not self.json_file.exists()"
mkdir_raises(l) == setup_paths(settings[l]) = SystemRoot /\ euid # 0

ensure_check_json(l) ==
    /\ lstate[l] = "new"
    /\ settings[l] # NoConfig
    /\ data_dir' = [data_dir EXCEPT ![l] = setup_paths(settings[l])]
    /\ IF mkdir_raises(l)
       THEN /\ lstate' = [lstate EXCEPT ![l] = "raised"]
            /\ UNCHANGED dir_mode
       ELSE /\ dir_mode' = dir_policy(settings[l])
            /\ lstate' = [lstate EXCEPT ![l] =
                             IF path[JSON] = 0 THEN "json_open"
                             ELSE "toml_check"]
    /\ UNCHANGED <<files, thread_lock, toml, pc, entry, data, clock, calls,
                   returned, reads, settings, warned, option, conf_files,
                   host, object, registry, monitor>>

\* write_text("[]"), first half: open(mode="w") creates or truncates
ensure_open_json(l) ==
    /\ lstate[l] = "json_open"
    /\ LET target == IF path[JSON] = 0 THEN FreshInode ELSE path[JSON] IN
          SetFiles([inode EXCEPT ![target] = EmptyText],
                   [path EXCEPT ![JSON] = target],
                   lock_fp, tmp_fd, [cfd EXCEPT ![l] = target])
    /\ lstate' = [lstate EXCEPT ![l] = "json_write"]
    /\ UNCHANGED <<thread_lock, toml, pc, entry, data, clock, calls, returned,
                   reads, setup, host, object, registry, monitor>>

\* write_text("[]"), second half: write the two characters and close
ensure_write_json(l) ==
    /\ lstate[l] = "json_write"
    /\ SetFiles([inode EXCEPT ![cfd[l]] = json_dumps(<<>>)],
                path, lock_fp, tmp_fd, [cfd EXCEPT ![l] = 0])
    /\ lstate' = [lstate EXCEPT ![l] = "toml_check"]
    /\ UNCHANGED <<thread_lock, toml, pc, entry, data, clock, calls, returned,
                   reads, setup, host, object, registry, monitor>>

\* "if not self.toml_file.exists()"
ensure_check_toml(l) ==
    /\ lstate[l] = "toml_check"
    /\ lstate' = [lstate EXCEPT ![l] =
                     IF path[TOML] = 0 THEN "toml_open" ELSE "chmod"]
    /\ UNCHANGED <<files, thread_lock, toml, pc, entry, data, clock, calls,
                   returned,
                   reads, setup, host, object, registry, monitor>>

\* write_text(""): open(mode="w") creates or truncates, nothing is written
ensure_open_toml(l) ==
    /\ lstate[l] = "toml_open"
    /\ LET target == IF path[TOML] = 0 THEN FreshInode ELSE path[TOML] IN
          SetFiles([inode EXCEPT ![target] = EmptyText],
                   [path EXCEPT ![TOML] = target], lock_fp, tmp_fd, cfd)
    /\ lstate' = [lstate EXCEPT ![l] = "chmod"]
    /\ UNCHANGED <<thread_lock, toml, pc, entry, data, clock, calls, returned,
                   reads, setup, host, object, registry, monitor>>

\* json_file.chmod and toml_file.chmod: each sets the bits of the file its
\* path names now, and raises FileNotFoundError when the path is gone
chmod_raises == path[JSON] = 0 \/ path[TOML] = 0

ensure_chmod(l) ==
    /\ lstate[l] = "chmod"
    /\ IF chmod_raises
       THEN /\ lstate' = [lstate EXCEPT ![l] = "raised"]
            /\ UNCHANGED mode
       ELSE /\ lstate' = [lstate EXCEPT ![l] = "ready"]
            /\ mode' = [mode EXCEPT ![path[JSON]] = file_policy(settings[l]),
                                    ![path[TOML]] = file_policy(settings[l])]
    /\ UNCHANGED <<inode, path, lock_fp, tmp_fd, cfd, thread_lock, toml, pc,
                   entry, data, clock, calls, returned, reads, setup, host, object, registry, monitor>>

(* ---------------------- PackageLogger.log_package --------------------- *)
\* the call up to _upsert_json_and_toml: validation and base_entry
log_package(t, events, ticks) ==
    /\ pc[t] = "idle"
    /\ lstate[LoggerOf[t]] = "ready"
    /\ \E ev \in events, action \in Actions,
          now \in {clock + d : d \in ticks} \cap (0 .. MaxClock) :
          /\ clock' = now
          /\ IF invalid_name(ev[1])
             THEN UNCHANGED <<pc, entry>>
             ELSE /\ pc' = [pc EXCEPT ![t] = "lock"]
                  /\ entry' = [entry EXCEPT ![t] =
                                  base_entry(ev[1], ev[2], action, now,
                                             settings[LoggerOf[t]])]
    /\ calls' = calls + 1
    /\ UNCHANGED <<files, lstate, thread_lock, toml, data, returned,
                   reads, setup, host, object, registry, monitor>>

\* DownloadsEventHandler.on_created with _log_download, up to
\* _upsert_json_and_toml of the log_package call it makes; the watchdog
\* thread delivers one notification at a time
on_created(t, events, ticks) ==
    /\ config # NoObject
    /\ pc[t] = "idle"
    /\ lstate[LoggerOf[t]] = "ready"
    /\ notified.count < MaxNotifications
    /\ \E event \in events, stat_fails \in BOOLEAN,
          now \in {clock + d : d \in ticks} \cap (0 .. MaxClock) :
          LET file_path == event.src_path
              ext_str == config.settings.monitored_extensions
              file_type == lower(Path_suffix(file_path))
              file_size == IF stat_fails THEN 0 ELSE StatSize
          IN  /\ notified' = [count |-> notified.count + 1,
                              last |-> <<[event |-> event,
                                          stat_fails |-> stat_fails]>>]
              /\ IF ~event.is_directory
                    /\ file_type \in package_extensions(ext_str)
                 THEN /\ logged' =
                           <<[name |-> Path_name(file_path),
                              manager |-> "download", action |-> "install",
                              file_path |-> file_path,
                              file_size |-> file_size,
                              file_type |-> file_type]>>
                      /\ clock' = now
                      /\ calls' = calls + 1
                      /\ IF invalid_name(Path_name(file_path))
                         THEN UNCHANGED <<pc, entry>>
                         ELSE /\ pc' = [pc EXCEPT ![t] = "lock"]
                              /\ entry' = [entry EXCEPT ![t] =
                                     base_entry(Path_name(file_path),
                                                "download", "install", now,
                                                settings[LoggerOf[t]])]
                 ELSE /\ logged' = <<>>
                      /\ UNCHANGED <<pc, entry, clock, calls>>
    /\ UNCHANGED <<files, lstate, thread_lock, toml, data, returned,
                   reads, setup, host, object, registry>>

\* DnfBackend.__init__ (enabled = is_available(), logger = None) and the
\* plugin's __init__, which constructs its PackageLogger itself
DnfBackend_init ==
    /\ backend = NoBackend
    /\ lstate[LoggerOf[1]] = "ready"
    /\ \E via \in {"backend", "plugin"}, enabled \in BOOLEAN :
          backend' = [NoBackend EXCEPT !.via = via,
                                       !.enabled = enabled \/ via = "plugin",
                                       !.logger = (via = "plugin")]
    /\ UNCHANGED <<files, lstate, thread_lock, toml, pc, entry, data, clock,
                   calls, returned, reads, setup, host, object, BACKENDS,
                   discovered_backends, imported, got, monitor>>

\* backend.logger = PackageLogger(...)
attach_logger ==
    /\ backend.via = "backend"
    /\ ~backend.logger
    /\ backend.phase = "idle"
    /\ backend' = [backend EXCEPT !.logger = TRUE]
    /\ UNCHANGED <<files, lstate, thread_lock, toml, pc, entry, data, clock,
                   calls, returned, reads, setup, host, object, BACKENDS,
                   discovered_backends, imported, got, monitor>>

\* register_transaction up to its first loop, and the plugin's
\* transaction(): a disabled backend returns False at once
register_transaction(transactions) ==
    /\ backend.via # "none"
    /\ backend.phase = "idle"
    /\ backend.count < MaxTransactions
    /\ \E txn \in transactions :
          backend' =
             IF ~backend.enabled
             THEN [backend EXCEPT !.result = "False", !.called = <<>>,
                                  !.txn = <<txn>>, !.count = @ + 1]
             ELSE [backend EXCEPT !.phase = "install",
                                  !.install_set = txn.install_set,
                                  !.remove_set = txn.remove_set,
                                  !.success = TRUE, !.result = "none",
                                  !.called = <<>>, !.txn = <<txn>>]
    /\ UNCHANGED <<files, lstate, thread_lock, toml, pc, entry, data, clock,
                   calls, returned, reads, setup, host, object, BACKENDS,
                   discovered_backends, imported, got, monitor>>

\* one pass of "for pkg in install_set" or "for pkg in remove_set" with
\* _log_package_install / _log_package_remove / _log_packages, up to
\* _upsert_json_and_toml of the log_package call; a set is iterated in any
\* order; an exception of the call is caught and makes the result False
log_fact(t, ticks) ==
    /\ backend.phase \in {"install", "remove"}
    /\ pc[t] = "idle"
    /\ LET action == backend.phase
           pending == IF action = "install" THEN backend.install_set
                      ELSE backend.remove_set
       IN  \E pkg \in pending,
              now \in {clock + d : d \in ticks} \cap (0 .. MaxClock) :
              LET rest == pending \ {pkg}
                  left == IF action = "install"
                          THEN [backend EXCEPT !.install_set = rest]
                          ELSE [backend EXCEPT !.remove_set = rest]
                  version == IF backend.via = "plugin" THEN plugin_version(pkg)
                             ELSE full_version(pkg)
              IN  IF ~backend.logger
                  THEN /\ backend' = left
                       /\ UNCHANGED <<pc, entry, clock, calls>>
                  ELSE /\ backend' =
                             [left EXCEPT
                                !.called = Append(@, [pkg |-> pkg,
                                                      action |-> action]),
                                !.success = fact_result(@, pkg.raises)]
                       /\ IF pkg.raises
                          THEN UNCHANGED <<pc, entry, clock, calls>>
                          ELSE /\ calls' = calls + 1
                               /\ clock' = now
                               /\ IF invalid_name(pkg.name)
                                  THEN UNCHANGED <<pc, entry>>
                                  ELSE /\ pc' = [pc EXCEPT ![t] = "lock"]
                                       /\ entry' = [entry EXCEPT ![t] =
                                              with_version(
                                                 base_entry(pkg.name, "dnf",
                                                    action, now,
                                                    settings[LoggerOf[t]]),
                                                 version)]
    /\ UNCHANGED <<files, lstate, thread_lock, toml, data, returned, reads,
                   setup, host, object, BACKENDS, discovered_backends,
                   imported, got, monitor>>

\* the end of a loop: the removals follow the installations, and after them
\* register_transaction returns success; the plugin returns None
register_next(t) ==
    /\ pc[t] = "idle"
    /\ \/ /\ backend.phase = "install"
          /\ backend.install_set = {}
          /\ backend' = [backend EXCEPT !.phase = "remove"]
       \/ /\ backend.phase = "remove"
          /\ backend.remove_set = {}
          /\ backend' =
                [backend EXCEPT
                   !.phase = "idle", !.count = @ + 1,
                   !.result = IF backend.via = "plugin" THEN "None"
                              ELSE IF backend.success THEN "True" ELSE "False"]
    /\ UNCHANGED <<files, lstate, thread_lock, toml, pc, entry, data, clock,
                   calls, returned, reads, setup, host, object, BACKENDS,
                   discovered_backends, imported, got, monitor>>

\* the count of returned calls, by action
Returned(t) ==
    IF entry[t].action = "remove"
    THEN <<returned[1], returned[2] + 1>>
    ELSE <<returned[1] + 1, returned[2]>>

\* the call returns: the thread lock is released at every level
return_from_call(t) ==
    /\ pc' = [pc EXCEPT ![t] = "idle"]
    /\ thread_lock' = [thread_lock EXCEPT ![LoggerOf[t]] = <<0, 0>>]
    /\ returned' = Returned(t)
    /\ entry' = [entry EXCEPT ![t] = NoEntry]
    /\ data' = [data EXCEPT ![t] = <<>>]

\* mutant: the thread lock excludes nobody
thread_lock_never_held(l, t) == TRUE

\* mutant: a plain Lock, which its owner cannot take again
thread_lock_not_reentrant(l, t) == thread_lock[l][1] = 0

\* "with self._thread_lock": threading.RLock, re-entrant for its owner
thread_lock_free(l, t) == thread_lock[l][1] \in {0, t}

acquire_thread_lock(t) ==
    /\ pc[t] = "lock"
    /\ thread_lock_free(LoggerOf[t], t)
    /\ thread_lock' = [thread_lock EXCEPT ![LoggerOf[t]] = <<t, @[2] + 1>>]
    /\ pc' = [pc EXCEPT ![t] = "open"]
    /\ UNCHANGED <<files, lstate, toml, entry, data, clock, calls, returned,
                   reads, setup, host, object, registry, monitor>>

\* _file_lock: path.open("a") opens the file the path names now, creating
\* an empty one when the path does not exist
file_lock_open(t, x, next) ==
    /\ LET target == IF path[x] = 0 THEN FreshInode ELSE path[x] IN
          SetFiles(IF path[x] = 0
                   THEN [inode EXCEPT ![target] = EmptyText]
                   ELSE inode,
                   [path EXCEPT ![x] = target],
                   [lock_fp EXCEPT ![t] = target], tmp_fd, cfd)
    /\ pc' = [pc EXCEPT ![t] = next]
    /\ UNCHANGED <<lstate, toml, entry, data, clock, calls, returned,
                   reads, setup, host, object, registry, monitor>>

\* fcntl.flock(lock_fp, LOCK_EX) blocks while another open file description
\* holds the lock of the same inode
flock_available(t) ==
    \A u \in Threads \ {t} : ~(HoldsFlock(u) /\ lock_fp[u] = lock_fp[t])

file_lock_flock(t, next) ==
    /\ flock_available(t)
    /\ pc' = [pc EXCEPT ![t] = next]
    /\ UNCHANGED <<files, lstate, thread_lock, toml, entry, data, clock,
                   calls, returned,
                   reads, setup, host, object, registry, monitor>>

json_lock_open(t) ==
    /\ pc[t] = "open"
    /\ file_lock_open(t, JSON, "flock")
    /\ UNCHANGED thread_lock

json_lock_flock(t) ==
    /\ pc[t] = "flock"
    /\ file_lock_flock(t, "read")

\* mutant: the exception leaves the locks as they are
abort_holding_locks(t) ==
    /\ pc' = [pc EXCEPT ![t] = "idle"]
    /\ returned' = Returned(t)
    /\ entry' = [entry EXCEPT ![t] = NoEntry]
    /\ data' = [data EXCEPT ![t] = <<>>]
    /\ UNCHANGED <<files, thread_lock, lstate, toml, clock, calls,
                   reads, setup, host, object, registry, monitor>>

\* an exception inside the critical section: the finally clause unlocks, the
\* with statements close the lock file and release the thread lock, and
\* "except Exception" logs the error; the call returns and the mirror is not
\* rewritten
abort(t) ==
    /\ SetFiles(inode, path, [lock_fp EXCEPT ![t] = 0], tmp_fd, cfd)
    /\ return_from_call(t)
    /\ UNCHANGED <<lstate, toml, clock, calls,
                   reads, setup, host, object, registry, monitor>>

\* the read of the store and the update in memory; json.loads raises on a
\* text that is no JSON document
read_json(t) ==
    /\ pc[t] = "read"
    /\ LET text == IF path[JSON] = 0 THEN EmptyText ELSE inode[path[JSON]] IN
          IF path[JSON] # 0 /\ text # EmptyText
          THEN IF json_parses(text)
               THEN /\ data' = [data EXCEPT ![t] =
                                   upsert(json_loads(text), entry[t])]
                    /\ pc' = [pc EXCEPT ![t] = "tmp_open"]
                    /\ UNCHANGED <<files, lstate, thread_lock, toml, entry,
                                   clock, calls, returned,
                                   reads, setup, host, object, registry, monitor>>
               ELSE abort(t)
          ELSE /\ data' = [data EXCEPT ![t] = upsert(<<>>, entry[t])]
               /\ pc' = [pc EXCEPT ![t] = "tmp_open"]
               /\ UNCHANGED <<files, lstate, thread_lock, toml, entry,
                              clock, calls, returned,
                              reads, setup, host, object, registry, monitor>>

\* mutant: the content is written over the target itself, not a temp file
atomic_write_open_in_place(t, tmp, next) ==
    /\ LET x == IF tmp = JSON_TMP THEN JSON ELSE TOML
           target == IF path[x] = 0 THEN FreshInode ELSE path[x]
       IN  SetFiles([inode EXCEPT ![target] = EmptyText],
                    [path EXCEPT ![x] = target, ![tmp] = target],
                    lock_fp, [tmp_fd EXCEPT ![t] = target], cfd)
    /\ pc' = [pc EXCEPT ![t] = next]
    /\ UNCHANGED <<lstate, thread_lock, toml, entry, data, clock, calls,
                   returned,
                   reads, setup, host, object, registry, monitor>>

\* _atomic_write: tmp_path.write_text, first half: open(mode="w")
atomic_write_open(t, tmp, next) ==
    /\ LET target == IF path[tmp] = 0 THEN FreshInode ELSE path[tmp] IN
          SetFiles([inode EXCEPT ![target] = EmptyText],
                   [path EXCEPT ![tmp] = target],
                   lock_fp, [tmp_fd EXCEPT ![t] = target], cfd)
    /\ pc' = [pc EXCEPT ![t] = next]
    /\ UNCHANGED <<lstate, thread_lock, toml, entry, data, clock, calls,
                   returned,
                   reads, setup, host, object, registry, monitor>>

\* _atomic_write: tmp_path.write_text, second half: write and close
atomic_write_write(t, content, next) ==
    /\ SetFiles([inode EXCEPT ![tmp_fd[t]] = content],
                path, lock_fp, [tmp_fd EXCEPT ![t] = 0], cfd)
    /\ pc' = [pc EXCEPT ![t] = next]
    /\ UNCHANGED <<lstate, thread_lock, toml, entry, data, clock, calls,
                   returned,
                   reads, setup, host, object, registry, monitor>>

\* _atomic_write: tmp_path.replace(path) raises FileNotFoundError when the
\* temp path is gone
replace_raises(tmp) == path[tmp] = 0

\* mutant: the temp file is copied over the target and stays
atomic_write_replace_copying(t, tmp, x, next) ==
    /\ path[tmp] # 0
    /\ SetFiles(inode, [path EXCEPT ![x] = path[tmp]], lock_fp, tmp_fd, cfd)
    /\ pc' = [pc EXCEPT ![t] = next]
    /\ UNCHANGED <<lstate, thread_lock, toml, entry, data, clock, calls,
                   returned,
                   reads, setup, host, object, registry, monitor>>

atomic_write_replace(t, tmp, x, next) ==
    /\ ~replace_raises(tmp)
    /\ SetFiles(inode, [path EXCEPT ![x] = path[tmp], ![tmp] = 0],
                lock_fp, tmp_fd, cfd)
    /\ pc' = [pc EXCEPT ![t] = next]
    /\ UNCHANGED <<lstate, thread_lock, toml, entry, data, clock, calls,
                   returned,
                   reads, setup, host, object, registry, monitor>>

\* "if len(data) > 1000": the store is written by _write_json_streaming
StreamThreshold == 1000
streaming(recs) == Len(recs) > StreamThreshold

\* _atomic_write's write_text and _write_json_streaming's tmp_path.open("w")
\* open the same path packages.json.tmp the same way
json_tmp_open(t) ==
    /\ pc[t] = "tmp_open"
    /\ atomic_write_open(t, JSON_TMP,
                         IF streaming(data[t]) THEN "stream" ELSE "tmp_write")

\* _write_json_streaming: buffered f.write / json.dump calls reach the temp
\* file in pieces; until the with block closes it holds a prefix
write_json_streaming_flush(t) ==
    /\ pc[t] = "stream"
    /\ inode[tmp_fd[t]] # truncated(json_dump_items(data[t]))
    /\ SetFiles([inode EXCEPT ![tmp_fd[t]] =
                    truncated(json_dump_items(data[t]))],
                path, lock_fp, tmp_fd, cfd)
    /\ UNCHANGED <<pc, lstate, thread_lock, toml, entry, data, clock, calls,
                   returned, reads, setup, host, object, registry, monitor>>

\* mutant: the closing bracket is never written
write_json_streaming_close_open_ended(t) ==
    /\ pc[t] = "stream"
    /\ atomic_write_write(t, truncated(json_dump_items(data[t])), "rename")

\* _write_json_streaming: f.write("\n]") and the end of the with block
write_json_streaming_close(t) ==
    /\ pc[t] = "stream"
    /\ atomic_write_write(t, json_dump_items(data[t]), "rename")

json_tmp_write(t) ==
    /\ pc[t] = "tmp_write"
    /\ atomic_write_write(t, json_dumps(data[t]), "rename")

\* a failed replace leaves the with blocks through "except Exception"
json_replace(t) ==
    /\ pc[t] = "rename"
    /\ IF replace_raises(JSON_TMP)
       THEN abort(t)
       ELSE atomic_write_replace(t, JSON_TMP, JSON, "unlock")

\* leaving "with _file_lock(self.json_file)": flock(LOCK_UN) and close.
\* Without the toml module _rewrite_toml_from_json_data returns at once and
\* the call ends by releasing the thread lock.
json_unlock(t) ==
    /\ pc[t] = "unlock"
    /\ SetFiles(inode, path, [lock_fp EXCEPT ![t] = 0], tmp_fd, cfd)
    /\ IF toml
       THEN /\ pc' = [pc EXCEPT ![t] = "t_open"]
            /\ UNCHANGED <<thread_lock, returned, entry, data>>
       ELSE return_from_call(t)
    /\ UNCHANGED <<lstate, toml, clock, calls,
                   reads, setup, host, object, registry, monitor>>

(* --------------- PackageLogger._rewrite_toml_from_json_data ------------ *)
\* "with self._thread_lock" (re-entered) and the open of the mirror's lock
toml_lock_open(t) ==
    /\ pc[t] = "t_open"
    /\ thread_lock_free(LoggerOf[t], t)
    /\ thread_lock' = [thread_lock EXCEPT ![LoggerOf[t]] = <<t, @[2] + 1>>]
    /\ file_lock_open(t, TOML, "t_flock")

toml_lock_flock(t) ==
    /\ pc[t] = "t_flock"
    /\ file_lock_flock(t, "t_tmp_open")

toml_tmp_open(t) ==
    /\ pc[t] = "t_tmp_open"
    /\ atomic_write_open(t, TOML_TMP, "t_tmp_write")

toml_tmp_write(t) ==
    /\ pc[t] = "t_tmp_write"
    /\ atomic_write_write(t, toml_content(data[t]), "t_rename")

\* a failed replace is caught by the inner "except Exception"
toml_replace(t) ==
    /\ pc[t] = "t_rename"
    /\ IF replace_raises(TOML_TMP)
       THEN /\ pc' = [pc EXCEPT ![t] = "t_unlock"]
            /\ UNCHANGED <<files, lstate, thread_lock, toml, entry, data,
                           clock, calls, returned,
                           reads, setup, host, object, registry, monitor>>
       ELSE atomic_write_replace(t, TOML_TMP, TOML, "t_unlock")

\* flock(LOCK_UN), close, and both levels of the thread lock released
toml_unlock(t) ==
    /\ pc[t] = "t_unlock"
    /\ SetFiles(inode, path, [lock_fp EXCEPT ![t] = 0], tmp_fd, cfd)
    /\ return_from_call(t)
    /\ UNCHANGED <<lstate, toml, clock, calls,
                   reads, setup, host, object, registry, monitor>>

(* ---------------------------- storage faults -------------------------- *)
\* _ensure_directories has no try block: an OSError of mkdir, chmod or
\* write_text leaves __init__ as an exception; a write_text that fails
\* after its open leaves the file it created, empty
fault_ensure(l) ==
    /\ lstate[l] \in {"new", "json_open", "json_write", "toml_open", "chmod"}
    /\ settings[l] # NoConfig
    /\ lstate' = [lstate EXCEPT ![l] = "raised"]
    /\ SetFiles(inode, path, lock_fp, tmp_fd, [cfd EXCEPT ![l] = 0])
    /\ UNCHANGED <<thread_lock, toml, pc, entry, data, clock, calls, returned,
                   reads, setup, host, object, registry, monitor>>

\* path.open("a") of _file_lock raises OSError, for the store or the mirror
fault_open(t) ==
    /\ pc[t] \in {"open", "t_open"}
    /\ abort(t)

\* tmp_path.write_text raises OSError: before the temp file exists, or
\* after a part of the content was written, which stays in the temp file
fault_write_text(t) ==
    \/ /\ pc[t] \in {"tmp_open", "t_tmp_open"}
       /\ abort(t)
    \/ /\ pc[t] \in {"tmp_write", "stream", "t_tmp_write"}
       /\ LET content == IF pc[t] = "t_tmp_write" THEN toml_content(data[t])
                         ELSE IF pc[t] = "stream" THEN json_dump_items(data[t])
                         ELSE json_dumps(data[t])
          IN SetFiles([inode EXCEPT ![tmp_fd[t]] = truncated(content)], path,
                      [lock_fp EXCEPT ![t] = 0], [tmp_fd EXCEPT ![t] = 0], cfd)
       /\ return_from_call(t)
       /\ UNCHANGED <<lstate, toml, clock, calls, reads, setup, host, object, registry, monitor>>

\* tmp_path.replace(path) raises OSError; the temp file stays
fault_replace(t) ==
    /\ pc[t] \in {"rename", "t_rename"}
    /\ abort(t)

(* --------------------------- read operations -------------------------- *)
\* json.loads(self.json_file.read_text()) as query and get_statistics run it:
\* it raises when the path is missing or the content is no JSON document
\* mutant: the read never takes the except branch
read_never_raises == FALSE

read_raises == ~(path[JSON] # 0 /\ json_parses(inode[path[JSON]]))

\* what packages.json and packages.toml hold
StoreText == IF path[JSON] = 0 THEN Free ELSE inode[path[JSON]]
MirrorText == IF path[TOML] = 0 THEN Free ELSE inode[path[TOML]]
StoreParses == path[JSON] # 0 /\ json_parses(StoreText)
StoreData == json_loads(StoreText)

\* an optional argument is a sequence: <<>> is None, <<v>> is the value v.
\* "if name:", "if manager:" and "if since:" skip None and the empty string
given_name(opt) == Len(opt) > 0 /\ Len(opt[1]) > 0
given_manager(opt) == Len(opt) > 0 /\ opt[1] # ""
given_since(opt) == Len(opt) > 0

\* "sub in s" for strings
contains(s, sub) ==
    \E i \in 0 .. (Len(s) - Len(sub)) : SubSeq(s, i + 1, i + Len(sub)) = sub

\* mutant: the name is compared as written, upper case differs from lower
name_matches_case_sensitive(name, e) == contains(e.name, name)

\* "name.lower() in e.get('name', '').lower()"
name_matches(name, e) == contains(lower(e.name), lower(name))

\* dt.datetime.fromisoformat(e.get("date")).date(): the calendar day of a
\* timestamp of whole seconds; a record without a usable date raises
date_raises(e) == e.date = Absent
date_part(iso) == iso \div TicksPerDay

keep_name(rows, name) ==
    LET test(e) == name_matches(name[1], e) IN
    IF given_name(name) THEN SelectSeq(rows, test) ELSE rows

\* mutant: the matching records come back newest first
keep_manager_reversed(rows, manager) ==
    LET test(e) == e.manager = manager[1]
        kept == IF given_manager(manager) THEN SelectSeq(rows, test) ELSE rows
    IN  [i \in DOMAIN kept |-> kept[Len(kept) + 1 - i]]

\* "e.get('manager') == manager"
keep_manager(rows, manager) ==
    LET test(e) == e.manager = manager[1] IN
    IF given_manager(manager) THEN SelectSeq(rows, test) ELSE rows

since_raises(rows, since) ==
    given_since(since) /\ \E i \in DOMAIN rows : date_raises(rows[i])

keep_since(rows, since) ==
    LET test(e) == date_part(e.date) >= since[1] IN
    IF given_since(since) THEN SelectSeq(rows, test) ELSE rows

\* the three filters of query, applied one after the other
query(l, filters) ==
    /\ lstate[l] = "ready"
    /\ \E f \in filters :
          LET rows == keep_manager(keep_name(IF read_raises THEN <<>>
                                             ELSE StoreData, f.name),
                                   f.manager)
              failed == read_raises \/ since_raises(rows, f.since)
          IN  /\ asked' = f
              /\ read_failed' = failed
              /\ results' = IF failed THEN <<>> ELSE keep_since(rows, f.since)
    /\ UNCHANGED <<files, lstate, thread_lock, toml, pc, entry, data, clock,
                   calls, returned, stats, setup, host, object, registry, monitor>>

\* mutant: every record counts as installed
statistics_all_installed(recs, scope) ==
    [total |-> Len(recs), installed |-> Len(recs),
     removed |-> Cardinality({i \in DOMAIN recs : recs[i].removed}),
     downloads |-> Cardinality({i \in DOMAIN recs : recs[i].manager = "download"}),
     scope |-> scope]

\* the dictionary get_statistics builds from the records it read
statistics(recs, scope) ==
    [total |-> Len(recs),
     installed |-> Cardinality({i \in DOMAIN recs : ~recs[i].removed}),
     removed |-> Cardinality({i \in DOMAIN recs : recs[i].removed}),
     downloads |-> Cardinality({i \in DOMAIN recs : recs[i].manager = "download"}),
     scope |-> scope]

get_statistics(l) ==
    /\ lstate[l] = "ready"
    /\ read_failed' = read_raises
    /\ stats' = IF read_raises THEN statistics(<<>>, settings[l])
                ELSE statistics(StoreData, settings[l])
    /\ UNCHANGED <<files, lstate, thread_lock, toml, pc, entry, data, clock,
                   calls, returned, asked, results, setup, host, object, registry, monitor>>

(* ------------------------------- crash -------------------------------- *)
\* the process of logger l dies while one of its threads has written the
\* temp file and not yet renamed it; the kernel closes its descriptors,
\* which drops its advisory locks
crash(l) ==
    /\ lstate[l] = "ready"
    /\ \E t \in Threads : LoggerOf[t] = l /\ pc[t] = "rename"
    /\ lstate' = [lstate EXCEPT ![l] = "dead"]
    /\ pc' = [t \in Threads |-> IF LoggerOf[t] = l THEN "dead" ELSE pc[t]]
    /\ entry' = [t \in Threads |-> IF LoggerOf[t] = l THEN NoEntry ELSE entry[t]]
    /\ data' = [t \in Threads |-> IF LoggerOf[t] = l THEN <<>> ELSE data[t]]
    /\ thread_lock' = [thread_lock EXCEPT ![l] = <<0, 0>>]
    /\ SetFiles(inode, path,
                [t \in Threads |-> IF LoggerOf[t] = l THEN 0 ELSE lock_fp[t]],
                [t \in Threads |-> IF LoggerOf[t] = l THEN 0 ELSE tmp_fd[t]],
                cfd)
    /\ UNCHANGED <<toml, clock, calls, returned,
                   reads, setup, host, object, registry, monitor>>

(* ---------------------------- specifications -------------------------- *)
Construct(l) ==
    \/ ensure_open_json(l)
    \/ ensure_write_json(l)
    \/ ensure_check_toml(l)
    \/ ensure_open_toml(l)
    \/ ensure_chmod(l)

Step(t) ==
    \/ acquire_thread_lock(t)
    \/ json_lock_open(t)
    \/ json_lock_flock(t)
    \/ read_json(t)
    \/ json_tmp_open(t)
    \/ json_tmp_write(t)
    \/ json_replace(t)
    \/ json_unlock(t)
    \/ toml_lock_open(t)
    \/ toml_lock_flock(t)
    \/ toml_tmp_open(t)
    \/ toml_tmp_write(t)
    \/ toml_replace(t)
    \/ toml_unlock(t)

\* the threads of one logger are interchangeable while at most one of them
\* runs: FirstThread picks the one that does
FirstThread(t) == \A u \in Threads : LoggerOf[u] = LoggerOf[t] => t <= u

\* concurrent processes, one thread in each, on loggers that are open: the
\* steps of their calls interleave freely; racing calls read the same second
\* of the clock
Call(t) ==
    /\ FirstThread(t)
    /\ calls < MaxCalls
    /\ log_package(t, ConcEvents, {0})

Next ==
    \/ \E t \in Threads : Call(t)
    \/ \E t \in Threads : Step(t)

Spec == Init /\ [][Next]_vars

\* every thread of every process calls, and every call that can take a
\* step eventually takes one: no thread stops inside a call
LiveCall(t) ==
    /\ calls < MaxLiveCalls
    /\ log_package(t, ConcEvents, {0})

NextLive ==
    \/ \E t \in Threads : LiveCall(t)
    \/ \E t \in Threads : Step(t)

SpecLive ==
    /\ InitOpened(BOOLEAN)
    /\ [][NextLive]_vars
    /\ \A t \in Threads : WF_vars(Step(t))

\* concurrent processes that also construct their loggers while others
\* construct, write and read
OpenCall(t) ==
    /\ FirstThread(t)
    /\ calls < MaxOpenCalls
    /\ log_package(t, ConcEvents, {0})

NextOpen ==
    \/ \E l \in Loggers : ensure_check_json(l)
    \/ \E l \in Loggers : Construct(l)
    \/ \E t \in Threads : OpenCall(t)
    \/ \E t \in Threads : Step(t)
    \/ \E l \in Loggers : query(l, {NoFilters})
    \/ \E l \in Loggers : get_statistics(l)

SpecOpen == InitNew({TRUE}) /\ [][NextOpen]_vars

\* one process: the threads of the first PackageLogger share it; the toml
\* module may be missing
SharedLogger == LoggerOf[1]
SharedThreads == {t \in Threads : LoggerOf[t] = SharedLogger}

ThreadCall(t) ==
    /\ calls < MaxThreadCalls
    /\ log_package(t, ThreadEvents, {0, 1})

NextThreads ==
    \/ \E t \in SharedThreads : ThreadCall(t)
    \/ \E t \in SharedThreads : Step(t)

SpecThreads == InitOpened(BOOLEAN) /\ [][NextThreads]_vars

\* sequential use by several processes: an operation starts only when none
\* is in flight; a process may die between its temp-file write and its rename
SeqOpen(l) == Quiet /\ ensure_check_json(l)

SeqCall(t) ==
    /\ Quiet
    /\ FirstThread(t)
    /\ calls < MaxSeqCalls
    /\ log_package(t, SeqEvents, {0, 1})

NextSeq ==
    \/ \E l \in Loggers : SeqOpen(l)
    \/ \E l \in Loggers : Construct(l)
    \/ \E t \in Threads : SeqCall(t)
    \/ \E t \in Threads : Step(t)
    \/ \E l \in Loggers : crash(l)

SpecSeq == InitNew({TRUE}) /\ [][NextSeq]_vars

\* one process that reads: the store was written earlier, by this program
\* or by hand; the process may log MaxReadCalls events and then queries
\* and asks for statistics, one operation at a time.  The wall clock is not
\* monotonic: the stored dates need not lie before the calls' dates.
NameAb == <<"A", "b">>
closed(rec, when) ==
    [rec EXCEPT !.removed = TRUE, !.action = "remove", !.date_removed = when]
ReadRecords ==
    {base_entry(NameA, "dnf", "install", 0, "user"),
     closed(base_entry(NameAb, "dnf", "install", 1, "user"), TicksPerDay),
     base_entry(NameB, "download", "install", TicksPerDay + 1, "user"),
     base_entry(NameB, "dnf", "install", Absent, "user")}
ReadStores == UNION {[1 .. k -> ReadRecords] : k \in 0 .. MaxStoreLen}
ReadEvents == {<<NameA, "dnf">>}
ReadFilters ==
    [name : {<<>>, <<NameA>>, <<<<"B">>>>},
     manager : {<<>>, <<"">>, <<"dnf">>, <<"download">>},
     since : {<<>>, <<1>>}]

InitRead ==
    /\ \E recs \in ReadStores :
       \E text \in {json_dumps(recs), truncated(json_dumps(recs))} :
       \E there \in {n \in {0, 1} : n = 1 \/ recs = <<>>} :
          /\ inode = [i \in Inodes |->
                         IF i = 1 /\ there = 1 THEN text
                         ELSE IF i = 2 THEN toml_content(recs) ELSE Free]
          /\ path = [x \in Paths |->
                        IF x = JSON THEN there ELSE IF x = TOML THEN 2 ELSE 0]
          /\ mode = [i \in Inodes |->
                        IF (i = 1 /\ there = 1) \/ i = 2
                        THEN UserFileMode ELSE 0]
    /\ lstate = [l \in Loggers |-> "ready"]
    /\ cfd = [l \in Loggers |-> 0]
    /\ thread_lock = [l \in Loggers |-> <<0, 0>>]
    /\ toml = TRUE
    /\ pc = [t \in Threads |-> "idle"]
    /\ entry = [t \in Threads |-> NoEntry]
    /\ data = [t \in Threads |-> <<>>]
    /\ lock_fp = [t \in Threads |-> 0]
    /\ tmp_fd = [t \in Threads |-> 0]
    /\ clock = 0
    /\ calls = 0
    /\ returned = <<0, 0>>
    /\ NoReads
    /\ dir_mode = UserDirMode
    /\ data_dir = [l \in Loggers |-> UserRoot]
    /\ DefaultConfig

\* one process on an empty data directory: root or a plain user, either
\* umask, any persisted configuration; it builds its Config through the
\* API or through a command of the CLI, then its PackageLogger, and logs
SetupOptions == {DefaultOption, "user", "system"}
PersistedScopes ==
    {NoFile} \cup {[DefaultSettings EXCEPT !.scope = s] :
                      s \in {"user", "system"}}

InitSetup ==
    /\ inode = [i \in Inodes |-> Free]
    /\ path = [x \in Paths |-> 0]
    /\ mode = [i \in Inodes |-> 0]
    /\ lstate = [l \in Loggers |-> "new"]
    /\ cfd = [l \in Loggers |-> 0]
    /\ thread_lock = [l \in Loggers |-> <<0, 0>>]
    /\ toml = TRUE
    /\ pc = [t \in Threads |-> "idle"]
    /\ entry = [t \in Threads |-> NoEntry]
    /\ data = [t \in Threads |-> <<>>]
    /\ lock_fp = [t \in Threads |-> 0]
    /\ tmp_fd = [t \in Threads |-> 0]
    /\ clock = 0
    /\ calls = 0
    /\ returned = <<0, 0>>
    /\ NoReads
    /\ dir_mode = 0
    /\ data_dir = [l \in Loggers |-> NoDir]
    /\ settings = [l \in Loggers |-> NoConfig]
    /\ warned = [l \in Loggers |-> {}]
    /\ option = [l \in Loggers |-> NoOption]
    /\ conf_files \in [ConfFiles -> PersistedScopes]
    /\ euid \in Euids
    /\ umask \in Umasks
    /\ config = NoObject
    /\ persisted = NoFile
    /\ NotImported(Builtin)
    /\ NoNotifications

SetupCall(t) ==
    /\ Quiet
    /\ t = 1
    /\ calls < MaxSetupCalls
    /\ log_package(t, ConcEvents, {0})

NextSetup ==
    \/ config_init(LoggerOf[1])
    \/ cli_command(LoggerOf[1], SetupOptions)
    \/ ensure_check_json(LoggerOf[1])
    \/ Construct(LoggerOf[1])
    \/ \E t \in Threads : SetupCall(t)
    \/ \E t \in Threads : Step(t)

SpecSetup == InitSetup /\ [][NextSetup]_vars

\* the scope API in one process, root or a plain user: Config() or the DNF
\* plugin, set and save in any order, the PackageLogger and its calls
Scopes == {"user", "system"}

NextScope ==
    \/ config_init(LoggerOf[1])
    \/ plugin_init(LoggerOf[1], Scopes)
    \/ config_set(LoggerOf[1], Scopes)
    \/ config_save(LoggerOf[1])
    \/ ensure_check_json(LoggerOf[1])
    \/ Construct(LoggerOf[1])
    \/ \E t \in Threads : SetupCall(t)
    \/ \E t \in Threads : Step(t)

SpecScope == InitSetup /\ [][NextScope]_vars

\* Config objects on their own: processes of root and of a plain user, one
\* after the other, construct a Config, change it, save and reload it, and
\* read its scope properties; no configuration file exists at the start
InitConfig == InitNew({TRUE})

NextConfig ==
    \/ Config_init
    \/ Config_set
    \/ Config_save
    \/ Config_reload
    \/ Config_read_scope
    \/ Config_read_is_system_scope
    \/ Config_read_is_user_scope
    \/ new_process

SpecConfig == InitConfig /\ [][NextConfig]_vars

\* the registry of one process: the package is imported, with or without
\* a clashing drop-in module, then backends are registered and looked up
\* under names that differ in letter case
NameDnf == <<"d", "n", "f">>
NameDNF == <<"D", "N", "F">>
NameTest == <<"t", "b">>
RegisterNames == {NameDnf, NameDNF, NameTest}
RegisterClasses == {"DnfBackend", "FirstBackend", "SecondBackend"}
LookupNames ==
    {NoName, <<NameDnf>>, <<NameDNF>>, <<<<"D", "n", "f">>>>, <<NameTest>>,
     <<<<"T", "B">>>>, <<<<"n", "o">>>>}

InitRegistry == InitNew({TRUE})

NextRegistry ==
    \/ drop_in
    \/ import_module
    \/ register_backend(RegisterNames, RegisterClasses)
    \/ get_backend(LookupNames)

SpecRegistry == InitRegistry /\ [][NextRegistry]_vars

\* the downloads monitor of one process: it constructs its Config and its
\* PackageLogger, the monitored extensions may be reconfigured, and the
\* files created in the watched directory are notified one at a time
DownloadsOpen(l) ==
    /\ config # NoObject
    /\ Quiet
    /\ ensure_check_json(l)

NextDownloads ==
    \/ Config_init
    \/ Config_set_key({"monitored_extensions"})
    \/ DownloadsOpen(SharedLogger)
    \/ Construct(SharedLogger)
    \/ on_created(1, DownloadEvents, {0, 1})
    \/ Step(1)

SpecDownloads == InitNew({TRUE}) /\ [][NextDownloads]_vars

\* DNF in one process: a DnfBackend, with or without a logger, or the
\* plugin registers transactions one after the other on an opened store
NextDnf ==
    \/ DnfBackend_init
    \/ attach_logger
    \/ register_transaction(Transactions)
    \/ log_fact(1, {0, 1})
    \/ register_next(1)
    \/ Step(1)

SpecDnf == InitOpened({TRUE}) /\ [][NextDnf]_vars

\* one process whose storage fails: it constructs its PackageLogger on an
\* empty directory or on one whose store does not parse, and logs events
\* one after the other; any file operation may raise OSError
FaultStores ==
    {Free,
     truncated(json_dumps(<<base_entry(NameA, "dnf", "install", 0, "user")>>)),
     json_dumps([i \in 1 .. StreamThreshold |->
                   base_entry(NameB, "download", "install", 0, "user")])}

InitFault ==
    /\ \E text \in FaultStores :
          /\ inode = [i \in Inodes |-> IF i = 1 THEN text ELSE Free]
          /\ path = [x \in Paths |->
                        IF x = JSON /\ text # Free THEN 1 ELSE 0]
          /\ mode = [i \in Inodes |->
                        IF i = 1 /\ text # Free THEN UserFileMode ELSE 0]
          /\ dir_mode = IF text # Free THEN UserDirMode ELSE 0
    /\ lstate = [l \in Loggers |-> "new"]
    /\ cfd = [l \in Loggers |-> 0]
    /\ thread_lock = [l \in Loggers |-> <<0, 0>>]
    /\ toml = TRUE
    /\ pc = [t \in Threads |-> "idle"]
    /\ entry = [t \in Threads |-> NoEntry]
    /\ data = [t \in Threads |-> <<>>]
    /\ lock_fp = [t \in Threads |-> 0]
    /\ tmp_fd = [t \in Threads |-> 0]
    /\ clock = 0
    /\ calls = 0
    /\ returned = <<0, 0>>
    /\ NoReads
    /\ data_dir = [l \in Loggers |-> NoDir]
    /\ DefaultConfig

FaultCall(t) ==
    /\ Quiet
    /\ t = 1
    /\ calls < MaxFaultCalls
    /\ log_package(t, ConcEvents, {0, 1})

NextFault ==
    \/ ensure_check_json(LoggerOf[1])
    \/ Construct(LoggerOf[1])
    \/ fault_ensure(LoggerOf[1])
    \/ \E t \in Threads : FaultCall(t)
    \/ \E t \in Threads : Step(t)
    \/ \E t \in Threads : write_json_streaming_flush(t)
    \/ \E t \in Threads : write_json_streaming_close(t)
    \/ \E t \in Threads : fault_open(t)
    \/ \E t \in Threads : fault_write_text(t)
    \/ \E t \in Threads : fault_replace(t)

SpecFault == InitFault /\ [][NextFault]_vars

ReadCall(t) ==
    /\ Quiet
    /\ t = 1
    /\ asked = NoFilters /\ results = <<>> /\ stats = NoStats
    /\ calls < MaxReadCalls
    /\ log_package(t, ReadEvents, {0, 1})

NextRead ==
    \/ \E t \in Threads : ReadCall(t)
    \/ \E t \in Threads : Step(t)
    \/ Quiet /\ query(LoggerOf[1], ReadFilters)
    \/ Quiet /\ get_statistics(LoggerOf[1])

SpecRead == InitRead /\ [][NextRead]_vars

(* ------------------------------ the store ----------------------------- *)
\* every call made so far has returned and every logger is open
AllReturned ==
    /\ \A t \in Threads : pc[t] = "idle"
    /\ \A l \in Loggers : lstate[l] = "ready"

\* thread t is between its read of packages.json and its rename
InReadModifyWrite(t) == pc[t] \in {"tmp_open", "tmp_write", "rename"}

\* the step in which thread t renames its temp file over packages.json
Replaces(t) == pc[t] = "rename" /\ pc'[t] = "unlock"

SamePair(r, e) == r.name = e.name /\ r.manager = e.manager
Open(r) == ~r.removed
OpenCount(recs, e) ==
    Cardinality({i \in 1 .. Len(recs) : SamePair(recs[i], e) /\ Open(recs[i])})
AtMostOneOpen(recs) ==
    \A i, j \in 1 .. Len(recs) :
        (SamePair(recs[i], recs[j]) /\ Open(recs[i]) /\ Open(recs[j])) => i = j

(* -------------------------------- claims ------------------------------ *)
\* C1: when several processes log install events and all calls have
\* returned, packages.json holds one record per call.
C1_NoLostUpdatesAcrossProcesses ==
    (AllReturned /\ returned[2] = 0)
        => /\ StoreParses
           /\ Len(StoreData) = returned[1]
           /\ \A i \in 1 .. Len(StoreData) : StoreData[i].action = "install"

\* C2: when the threads of one process log install events through one
\* shared PackageLogger and all calls have returned, packages.json parses
\* and holds one record per call.
C2_ThreadsLoseNoWrite ==
    (returned[2] = 0 /\ \A t \in SharedThreads : pc[t] = "idle")
        => (StoreParses /\ Len(StoreData) = returned[1])

C2_Witness ==
    /\ AllReturned
    /\ returned = <<MaxThreadCalls, 0>>
    /\ StoreParses
    /\ Len(StoreData) = MaxThreadCalls
    /\ \E i, j \in 1 .. Len(StoreData) : StoreData[i].name # StoreData[j].name

\* C3: no two writers are at the same time between the read of
\* packages.json and the rename that writes it back.
C3_MutualExclusion ==
    \A t, u \in Threads :
        (InReadModifyWrite(t) /\ InReadModifyWrite(u)) => t = u

\* C4: a remove that finds the store holding the single open record of an
\* earlier install of its pair leaves exactly that record, closed: removed
\* is true, action is remove, date_removed is the remove's timestamp, and
\* name, manager and date are the install's.
C4_InstallThenRemove ==
    [][\A t \in Threads :
          (/\ Replaces(t)
           /\ entry[t].removed
           /\ StoreParses
           /\ Len(StoreData) = 1
           /\ SamePair(StoreData[1], entry[t])
           /\ Open(StoreData[1]))
          => (/\ StoreParses'
              /\ Len(StoreData') = 1
              /\ StoreData'[1].removed = TRUE
              /\ StoreData'[1].action = "remove"
              /\ StoreData'[1].date_removed = entry[t].date
              /\ StoreData'[1].name = StoreData[1].name
              /\ StoreData'[1].manager = StoreData[1].manager
              /\ StoreData'[1].date = StoreData[1].date)]_vars

C4_Witness ==
    /\ AllReturned
    /\ StoreParses
    /\ Len(StoreData) = 1
    /\ StoreData[1].removed
    /\ StoreData[1].date_removed # Absent
    /\ StoreData[1].date_removed # StoreData[1].date

\* C5: a remove that finds open records of its pair closes the last of
\* them in storage order and changes no other record; the length of the
\* store stays the same.
C5_RemoveClosesLastOpen ==
    [][\A t \in Threads :
          (/\ Replaces(t)
           /\ entry[t].removed
           /\ StoreParses
           /\ OpenCount(StoreData, entry[t]) > 0)
          => LET old == StoreData
                 new == StoreData'
                 last == CHOOSE k \in 1 .. Len(old) :
                            /\ SamePair(old[k], entry[t]) /\ Open(old[k])
                            /\ \A j \in (k + 1) .. Len(old) :
                                  ~(SamePair(old[j], entry[t]) /\ Open(old[j]))
             IN  /\ StoreParses'
                 /\ Len(new) = Len(old)
                 /\ new[last].removed
                 /\ \A i \in 1 .. Len(old) : i # last => new[i] = old[i]]_vars

\* two installs of a pair followed by one remove: the earlier record is
\* still open and the later one is closed
C5_Witness ==
    /\ AllReturned
    /\ StoreParses
    /\ Len(StoreData) = 2
    /\ SamePair(StoreData[1], StoreData[2])
    /\ Open(StoreData[1])
    /\ StoreData[2].removed
    /\ StoreData[2].date_removed # Absent

\* C6: no read by query or get_statistics fails to parse packages.json.
C6_ReadersSeeCompleteStore == ~read_failed

\* C7: while a writer stands between its temp-file write and its rename,
\* packages.json still holds the complete sequence the writer read; if the
\* process dies there the store is unchanged; and no later call fails: its
\* rename installs the previous sequence with its own event applied.
C7_CrashAtomicity ==
    [][\A t \in Threads :
          /\ pc[t] = "rename"
                => /\ StoreParses
                   /\ data[t] = upsert(StoreData, entry[t])
                   /\ pc'[t] = "dead" => StoreText' = StoreText
                   /\ pc'[t] \notin {"dead", "rename"}
                         => /\ pc'[t] = "unlock"
                            /\ StoreParses'
                            /\ StoreData' = upsert(StoreData, entry[t])
          /\ pc[t] = "read" => pc'[t] \in {"read", "tmp_open", "dead"}]_vars

\* a process died before its rename and a later writer has renamed
C7_Witness ==
    /\ \E l \in Loggers : lstate[l] = "dead"
    /\ \E t \in Threads : pc[t] = "unlock"
    /\ StoreParses
    /\ Len(StoreData) > 0

\* C8: whenever no call is in flight, packages.toml is the regeneration of
\* the record sequence in packages.json.
C8_MirrorConsistency ==
    AllReturned => (StoreParses /\ MirrorText = toml_content(StoreData))

\* C9: for each (name, manager) pair at most one record is open.
C9_AtMostOneOpenRecord == StoreParses => AtMostOneOpen(StoreData)

\* C9 as amended: a call keeps "at most one open record per pair" unless it
\* is a non-remove event for a pair that already has an open record.
C9_AtMostOneOpenUnlessReinstalled ==
    [][\A t \in Threads :
          (/\ Replaces(t)
           /\ StoreParses
           /\ AtMostOneOpen(StoreData)
           /\ ~(/\ entry[t].action # "remove"
                /\ OpenCount(StoreData, entry[t]) > 0))
          => (StoreParses' /\ AtMostOneOpen(StoreData'))]_vars

\* a pair closed and installed again: one closed and one open record
C9_Witness ==
    /\ AllReturned
    /\ StoreParses
    /\ Len(StoreData) = 2
    /\ SamePair(StoreData[1], StoreData[2])
    /\ StoreData[1].removed
    /\ StoreData[1].date_removed # Absent
    /\ Open(StoreData[2])

\* C10: a call with a non-remove action appends its entry as the last
\* record, open, and leaves every earlier record as it was.
C10_InstallAppends ==
    [][\A t \in Threads :
          (Replaces(t) /\ entry[t].action # "remove" /\ StoreParses)
          => (/\ StoreParses'
              /\ Len(StoreData') = Len(StoreData) + 1
              /\ StoreData'[Len(StoreData')] = entry[t]
              /\ StoreData'[Len(StoreData')].removed = FALSE
              /\ \A i \in 1 .. Len(StoreData) :
                    StoreData'[i] = StoreData[i])]_vars

\* an install appended next to an open record of the same pair
C10_Witness ==
    /\ AllReturned
    /\ StoreParses
    /\ Len(StoreData) = 3
    /\ SamePair(StoreData[1], StoreData[3])
    /\ StoreData[1].removed
    /\ SamePair(StoreData[2], StoreData[3])
    /\ Open(StoreData[2])
    /\ Open(StoreData[3])

\* C11: a remove whose pair has no open record appends its entry as the
\* last record, with removed true and action remove, and leaves every
\* earlier record as it was, closed records of the pair and open records
\* that share only the name or only the manager included.
C11_StandaloneRemove ==
    [][\A t \in Threads :
          (/\ Replaces(t)
           /\ entry[t].action = "remove"
           /\ StoreParses
           /\ OpenCount(StoreData, entry[t]) = 0)
          => (/\ StoreParses'
              /\ Len(StoreData') = Len(StoreData) + 1
              /\ StoreData'[Len(StoreData')] = entry[t]
              /\ StoreData'[Len(StoreData')].removed = TRUE
              /\ StoreData'[Len(StoreData')].action = "remove"
              /\ \A i \in 1 .. Len(StoreData) :
                    StoreData'[i] = StoreData[i])]_vars

\* an open record that shares only the name, a closed record of the pair,
\* and a second standalone remove of the pair after them
C11_Witness ==
    /\ AllReturned
    /\ StoreParses
    /\ Len(StoreData) = 3
    /\ Open(StoreData[1])
    /\ StoreData[1].name = StoreData[3].name
    /\ StoreData[1].manager # StoreData[3].manager
    /\ SamePair(StoreData[2], StoreData[3])
    /\ StoreData[2].removed
    /\ StoreData[3].removed
    /\ StoreData[3].action = "remove"
    /\ StoreData[3].date_removed = Absent

\* C12: a log_package call whose name is empty or blank returns at once:
\* no thread leaves idle, no lock is taken and no file changes; and every
\* call that does proceed carries a non-empty trimmed name.
C12_InvalidNameIsNoOp ==
    [][/\ (calls' = calls + 1 /\ pc' = pc)
          => UNCHANGED <<files, thread_lock, entry, data, returned>>
       /\ \A t \in Threads :
             (pc[t] = "idle" /\ pc'[t] = "lock")
                => (entry'[t].name # <<>> /\ entry'[t].name = strip(entry'[t].name))]_vars

\* calls were made, every one of them was rejected, and the store is as the
\* constructor left it
C12_Witness ==
    /\ AllReturned
    /\ calls = MaxSeqCalls
    /\ returned = <<0, 0>>
    /\ StoreText = json_dumps(<<>>)
    /\ MirrorText = EmptyText
    /\ \A l \in Loggers : thread_lock[l] = <<0, 0>>

(* ------------------------- claims on the reads ------------------------ *)
\* a step of query: it leaves its filters, its result and its failure flag
QueryStep ==
    /\ <<asked, results, read_failed>>' # <<asked, results, read_failed>>
    /\ stats' = stats
\* a step of get_statistics
StatisticsStep == stats' # stats

Fold(c) == IF c = "A" THEN "a" ELSE IF c = "B" THEN "b" ELSE c
IsInfixIgnoringCase(sub, str) ==
    \E off \in 0 .. (Len(str) - Len(sub)) :
        \A k \in 1 .. Len(sub) : Fold(str[off + k]) = Fold(sub[k])
\* record e satisfies every filter of f that is given
Satisfies(e, f) ==
    /\ Len(f.name) > 0 => IsInfixIgnoringCase(f.name[1], e.name)
    /\ Len(f.manager) > 0 => e.manager = f.manager[1]
    /\ Len(f.since) > 0 => (e.date \div TicksPerDay) >= f.since[1]
Satisfying(recs, f) == {i \in DOMAIN recs : Satisfies(recs[i], f)}
SameRecords(rows, recs, idx) ==
    /\ Len(rows) = Cardinality(idx)
    /\ \A i \in idx : \E k \in DOMAIN rows : rows[k] = recs[i]
    /\ \A k \in DOMAIN rows : \E i \in idx : rows[k] = recs[i]

RECURSIVE IsSubsequence(_, _)
IsSubsequence(r, s) ==
    IF r = <<>> THEN TRUE
    ELSE IF s = <<>> THEN FALSE
    ELSE IF Head(r) = Head(s) THEN IsSubsequence(Tail(r), Tail(s))
    ELSE IsSubsequence(r, Tail(s))

\* C16: the result of query is a subsequence of the stored sequence, and a
\* remove that closes a record leaves it where its install put it: same
\* index, same name, manager and date, every other record untouched.
C16_StorageOrder ==
    [][/\ (QueryStep /\ StoreParses) => IsSubsequence(results', StoreData)
       /\ \A t \in Threads :
             (/\ Replaces(t)
              /\ entry[t].action = "remove"
              /\ StoreParses
              /\ OpenCount(StoreData, entry[t]) > 0)
             => (/\ StoreParses'
                 /\ Len(StoreData') = Len(StoreData)
                 /\ \E k \in DOMAIN StoreData :
                       /\ Open(StoreData[k])
                       /\ SamePair(StoreData[k], entry[t])
                       /\ StoreData'[k].removed
                       /\ StoreData'[k].date = StoreData[k].date
                       /\ SamePair(StoreData'[k], StoreData[k])
                       /\ \A i \in DOMAIN StoreData :
                             i # k => StoreData'[i] = StoreData[i])]_vars

\* a remove closed the first of two records and the query returns it first
C16_Witness ==
    /\ StoreParses
    /\ returned = <<0, 1>>
    /\ Len(StoreData) = 2
    /\ results = StoreData
    /\ results[1].name = NameA
    /\ results[1].removed
    /\ results[1].date_removed # Absent
    /\ Open(results[2])

\* a record that passes the name and manager filters and has no date: the
\* since filter cannot evaluate it
Unevaluable(f, recs) ==
    /\ Len(f.since) > 0
    /\ \E i \in DOMAIN recs :
          /\ recs[i].date = Absent
          /\ Satisfies(recs[i], [f EXCEPT !.since = <<>>])

\* C17: when packages.json is missing or does not parse, or holds a record
\* the filters cannot evaluate, query returns the empty list; when it is
\* missing or does not parse, get_statistics returns zero counts with the
\* scope of the configuration; neither changes a file.
C17_ReadsDegrade ==
    [][/\ (QueryStep /\ (~StoreParses \/ Unevaluable(asked', StoreData)))
             => (results' = <<>> /\ UNCHANGED files)
       /\ (StatisticsStep /\ ~StoreParses)
             => (/\ stats' = [total |-> 0, installed |-> 0, removed |-> 0,
                              downloads |-> 0,
                              scope |-> settings[LoggerOf[1]]]
                 /\ UNCHANGED files)]_vars

\* both reads have run on a store that does not parse
C17_Witness ==
    /\ ~StoreParses
    /\ StoreText.fmt = "truncated"
    /\ Len(StoreText.body) > 0
    /\ read_failed
    /\ asked # NoFilters
    /\ results = <<>>
    /\ stats = [total |-> 0, installed |-> 0, removed |-> 0, downloads |-> 0,
                scope |-> "user"]

RECURSIVE CountRemoved(_)
CountRemoved(recs) ==
    IF recs = <<>> THEN 0
    ELSE (IF Head(recs).removed THEN 1 ELSE 0) + CountRemoved(Tail(recs))
RECURSIVE CountDownloads(_)
CountDownloads(recs) ==
    IF recs = <<>> THEN 0
    ELSE (IF Head(recs).manager = "download" THEN 1 ELSE 0)
         + CountDownloads(Tail(recs))

\* C18: for a store that parses, get_statistics returns total = the number
\* of records, removed = those flagged removed, installed = the others,
\* downloads = those of manager download, and the scope of the
\* configuration; installed + removed = total.
C18_StatisticsCorrectness ==
    [][(StatisticsStep /\ StoreParses)
          => (/\ stats'.total = Len(StoreData)
              /\ stats'.removed = CountRemoved(StoreData)
              /\ stats'.installed = Len(StoreData) - CountRemoved(StoreData)
              /\ stats'.downloads = CountDownloads(StoreData)
              /\ stats'.scope = settings[LoggerOf[1]]
              /\ stats'.installed + stats'.removed = stats'.total)]_vars

\* statistics of a store with a closed record and an open download
C18_Witness ==
    /\ StoreParses
    /\ stats.total = Len(StoreData)
    /\ stats.total >= 2
    /\ stats.installed >= 1
    /\ stats.removed >= 1
    /\ stats.downloads >= 1
    /\ stats.scope = "user"

(* ---------------------- claims on faults and setup -------------------- *)
\* C13: whatever step of a call fails, the call returns and each store file
\* holds its complete previous content or its complete new content: the
\* store changes only in the rename of a call, to that call's complete
\* record sequence, and so does the mirror; a call that fails before its
\* rename leaves packages.json as it was.
C13_FailedWriteAllOrNothing ==
    [][pc' # pc =>
       /\ StoreText' # StoreText
          => \E t \in Threads :
                /\ Replaces(t)
                /\ StoreParses'
                /\ StoreData' = data[t]
                /\ StoreParses =>
                      data[t] = upsert(StoreData, entry[t])
       /\ MirrorText' # MirrorText
          => \E t \in Threads :
                /\ pc[t] = "t_rename"
                /\ pc'[t] = "t_unlock"
                /\ MirrorText' = toml_content(data[t])
       /\ \A t \in Threads :
             (pc[t] \in {"lock", "open", "flock", "read", "tmp_open",
                         "tmp_write", "stream", "rename"} /\ pc'[t] = "idle")
                => (/\ StoreText' = StoreText
                    /\ MirrorText' = MirrorText
                    /\ thread_lock'[LoggerOf[t]] = <<0, 0>>
                    /\ lock_fp'[t] = 0)]_vars

\* the store was written, the write of the mirror failed half way: the
\* call has returned, the mirror is the previous one, complete, and the
\* partial text sits in the temp file
C13_Witness ==
    /\ lstate[LoggerOf[1]] = "ready"
    /\ \A t \in Threads : pc[t] = "idle"
    /\ returned[1] + returned[2] = MaxFaultCalls
    /\ StoreParses
    /\ Len(StoreData) = 1
    /\ MirrorText = EmptyText
    /\ path[TOML_TMP] # 0
    /\ inode[path[TOML_TMP]].fmt = "truncated"

\* C14: no construction of a PackageLogger ends in an exception.
C14_NoFaultPropagates == \A l \in Loggers : lstate[l] # "raised"

\* the scope a process asks for in the step that builds its Config: by its
\* --scope option, by the option's default, or by the persisted user file
RequestsSystem(l) ==
    \/ option'[l] = "system"
    \/ option'[l] = DefaultOption /\ conf_files[SystemConf].scope = "system"
    \/ option'[l] = DefaultOption /\ conf_files[UserConf].scope = "system"
    \/ conf_files[UserConf].scope = "system"

\* C19: in a process without root privilege that asks for system scope,
\* through the persisted configuration Config reads or through --scope,
\* the scope of the configuration is "user" and the downgrade is reported;
\* its PackageLogger is built on the user root and its construction raises
\* nothing.
C19_ScopeDowngrade ==
    [][euid # 0 =>
          \A l \in Loggers :
             /\ (settings[l] = NoConfig /\ settings'[l] # NoConfig
                   /\ RequestsSystem(l))
                   => (settings'[l] = "user" /\ warned'[l] # {})
             /\ settings'[l] \in {NoConfig, "user"}
             /\ lstate'[l] # "raised"
             /\ lstate'[l] # "new" => data_dir'[l] = UserRoot]_vars

\* a plain user ran a command with --scope system while the user file
\* persisted scope system: both reports were made, the logger stands on
\* the user root and has logged an event of scope user
C19_Witness ==
    /\ euid # 0
    /\ option[LoggerOf[1]] = "system"
    /\ warned[LoggerOf[1]] = {"echo", "warning"}
    /\ settings[LoggerOf[1]] = "user"
    /\ conf_files[UserConf].scope = "user"
    /\ lstate[LoggerOf[1]] = "ready"
    /\ data_dir[LoggerOf[1]] = UserRoot
    /\ dir_mode = UserDirMode
    /\ \A t \in Threads : pc[t] = "idle"
    /\ StoreParses
    /\ Len(StoreData) = 1
    /\ StoreData[1].scope = "user"

\* C20: once a PackageLogger is constructed and no call is in flight, the
\* data directory and both store files carry the modes of its scope.
C20_PermissionPolicy ==
    \A l \in Loggers :
       (lstate[l] = "ready" /\ \A t \in Threads : pc[t] = "idle")
          => (/\ dir_mode = dir_policy(settings[l])
              /\ path[JSON] # 0
              /\ mode[path[JSON]] = file_policy(settings[l])
              /\ path[TOML] # 0
              /\ mode[path[TOML]] = file_policy(settings[l]))

(* ------------------------- claims on temp files ----------------------- *)
AllIdle == \A t \in Threads : pc[t] = "idle"

C22_ConfigRoundTrip ==
    [][(config = NoObject /\ config' # NoObject /\ persisted # NoFile)
          => config'.settings = persisted]_vars

\* C23: after a save() that succeeded exactly one of the two configuration
\* files exists, the one of the scope saved.
C23_OneAuthoritativeFile ==
    persisted # NoFile
       => /\ persisted.scope = "system"
             => (conf_files[SystemConf] # NoFile /\ conf_files[UserConf] = NoFile)
          /\ persisted.scope = "user"
             => (conf_files[UserConf] # NoFile /\ conf_files[SystemConf] = NoFile)

\* C24: on a Config, scope equals get("scope"), is_system_scope equals
\* (scope = "system") and is_user_scope equals (scope = "user").
C24_ScopeAccessorsFresh ==
    config # NoObject
       => /\ Config_scope(config) = Config_get_scope(config)
          /\ Config_is_system_scope(config) = (Config_scope(config) = "system")
          /\ Config_is_user_scope(config) = (Config_scope(config) = "user")

(* ------------------------ claims on the registry --------------------- *)
CaseFold(c) ==
    IF \E k \in 1 .. 26 : UpperCase[k] = c
    THEN LowerCase[CHOOSE k \in 1 .. 26 : UpperCase[k] = c] ELSE c
SameUpToCase(a, b) ==
    /\ Len(a) = Len(b)
    /\ \A i \in 1 .. Len(a) : CaseFold(a[i]) = CaseFold(b[i])
\* the names bound in the registry that equal name up to letter case
BoundAs(name) == {n \in DOMAIN BACKENDS : SameUpToCase(n, name)}
\* a get_backend call was made in this step
LookupStep == got' # got

\* C25: a lookup under a name that equals a registered name up to letter
\* case returns an instance of the backend registered under that name.
C25_CaseInsensitiveLookup ==
    [][(LookupStep /\ got'.name # NoName /\ BoundAs(got'.name[1]) # {})
          => got'.result \in {BACKENDS[n] : n \in BoundAs(got'.name[1])}]_vars

\* C26: once the import of the package has completed, every discovered
\* adapter is bound in the registry under its name, dnf to the DNF adapter.
C26_RegistryPopulated ==
    Imported
       => /\ \A n \in DOMAIN discovered_backends : n \in DOMAIN BACKENDS
          /\ lookup(BACKENDS, <<NameDnf>>) # "None"

\* C27 (as stated): no step rebinds a name that is bound, neither in
\* discovered_backends nor in the registry.
C27_NeverRebound ==
    [][/\ \A n \in DOMAIN discovered_backends :
             /\ n \in DOMAIN discovered_backends'
             /\ discovered_backends'[n] = discovered_backends[n]
       /\ \A n \in DOMAIN BACKENDS :
             /\ n \in DOMAIN BACKENDS'
             /\ BACKENDS'[n] = BACKENDS[n]]_vars

\* C27 (amended): discovery never rebinds a name, and its ImportError is
\* raised exactly on a class whose name is bound already; register_backend
\* has no guard, a step of it changes one binding and raises nothing.
C27_DiscoveryDuplicateIsFatal ==
    [][/\ \A n \in DOMAIN discovered_backends :
             /\ n \in DOMAIN discovered_backends'
             /\ discovered_backends'[n] = discovered_backends[n]
       /\ (~imported.raised /\ imported'.raised)
             => /\ imported.modules[imported.next].name
                      \in DOMAIN discovered_backends
                /\ discovered_backends' = discovered_backends
       /\ imported'.next = imported.next + 1
             => imported.modules[imported.next].name
                   \notin DOMAIN discovered_backends
       /\ BACKENDS' # BACKENDS
             => /\ imported' = imported
                /\ Cardinality({n \in DOMAIN BACKENDS' :
                                  n \notin DOMAIN BACKENDS
                                  \/ BACKENDS'[n] # BACKENDS[n]}) = 1]_vars

\* the import met the drop-in class named dnf and raised; dnf is still
\* bound to the built-in adapter
C27_Witness ==
    /\ imported.raised
    /\ imported.modules[imported.next] = DropIn
    /\ NameDnf \in DOMAIN discovered_backends
    /\ discovered_backends[NameDnf] = "DnfBackend"

\* C28: get_backend gives None, raising nothing, for None and for a name
\* that is not registered, and leaves the registry as it is.
C28_LookupOfUnknownIsNone ==
    [][(LookupStep /\ (got'.name = NoName \/ BoundAs(got'.name[1]) = {}))
          => (got'.result = "None" /\ BACKENDS' = BACKENDS)]_vars

\* the extensions a configured text names: its comma-separated pieces,
\* without blanks around them, each with one leading dot
Configured(ext_str) ==
    {<<".">> \o lstrip_dot(strip(piece)) : piece \in split(ext_str)}

\* the notification just delivered is of a file whose extension is, up to
\* letter case, one of the configured ones
Monitored(n, ext_str) ==
    /\ ~n.event.is_directory
    /\ \E ext \in Configured(ext_str) :
          SameUpToCase(Path_suffix(n.event.src_path), ext)

\* C29: for every file-creation notification log_package is called exactly
\* once, with manager "download" and action "install", if and only if the
\* event is not a directory and the extension of the file, compared without
\* regard to letter case, is in the configured set; otherwise it is not
\* called; when stat fails the single call is still made, with file_size 0
C29_LoggedIffExtensionMatches ==
    [][notified'.count # notified.count
          => LET n == notified'.last[1]
             IN  /\ Len(logged') <= 1
                 /\ logged' # <<>>
                       <=> Monitored(n, config.settings.monitored_extensions)
                 /\ logged' # <<>>
                       => /\ logged'[1].manager = "download"
                          /\ logged'[1].action = "install"
                          /\ n.stat_fails => logged'[1].file_size = 0]_vars

\* the scope a command was asked for: its --scope option, or the default
\* that the configuration files gave when the option was left out
CommandRan(l) == option[l] # NoOption
\* the scope in force is one a process of this user may have
Resolved(l) ==
    /\ settings[l] \in {"user", "system"}
    /\ settings[l] = "system" => euid = 0
    /\ option[l] = "user" => settings[l] = "user"
    /\ (option[l] = "system" /\ euid = 0) => settings[l] = "system"
\* the configuration file of the scope in force holds that scope
Persisted(l) ==
    /\ settings[l] = "user" => conf_files[UserConf].scope = "user"
    /\ settings[l] = "system" => conf_files[SystemConf].scope = "system"
\* nothing of the PackageLogger exists: no constructor step was taken, no
\* data directory chosen, no call started
EngineUntouched(l) ==
    /\ lstate[l] = "new"
    /\ data_dir[l] = NoDir
    /\ \A t \in Threads : LoggerOf[t] = l => pc[t] = "idle"

C38_FailedSaveChangesNothing ==
    [][(config # NoObject /\ config.settings.scope = "system" /\ euid # 0)
          => \A f \in ConfFiles :
                conf_files[f] # NoFile => conf_files'[f] = conf_files[f]]_vars

\* what packages.json would hold after _atomic_write of the serialized list
AtomicWriteResult(recs) == json_loads(json_dumps(recs))

C32_LocksReleasedOnEveryExit ==
    [][\A t \in Threads :
          (pc[t] # "idle" /\ pc'[t] = "idle")
             => /\ lock_fp'[t] = 0
                /\ thread_lock'[LoggerOf[t]] = <<0, 0>>]_vars

\* after a call that failed at its rename and left its temp file, the next
\* call holds the thread lock and the file lock of packages.json
C32_Witness ==
    /\ pc[1] = "read"
    /\ path[JSON_TMP] # 0
    /\ thread_lock[LoggerOf[1]][1] = 1
    /\ lock_fp[1] # 0

\* a step of some PackageLogger's constructor
ConstructorStep == \E l \in Loggers : lstate'[l] # lstate[l]

\* C34: no step of a constructor changes what an existing packages.json
\* holds; in particular its write of the empty sequence never replaces
\* events that a call of another process has written.
C34_OpeningKeepsRecords ==
    [][(ConstructorStep /\ StoreParses /\ StoreData # <<>>)
          => (StoreParses' /\ StoreData' = StoreData)]_vars

\* record r of the store is still record q: the same event, open or closed
SameEvent(r, q) ==
    /\ q.name = r.name
    /\ q.manager = r.manager
    /\ q.date = r.date
    /\ q.scope = r.scope
    /\ r.removed => q.removed

\* C33: across constructions, log_package calls, queries and statistics a
\* store that holds records keeps them: after every step it still parses,
\* has at least as many records, every record is at its position with its
\* name, manager, date and scope, and a removed record stays removed.
C33_AppendOrCloseOnly ==
    [][(StoreParses /\ StoreData # <<>>)
          => /\ StoreParses'
             /\ Len(StoreData') >= Len(StoreData)
             /\ \A i \in 1 .. Len(StoreData) :
                   SameEvent(StoreData[i], StoreData'[i])]_vars

\* the log_package calls made for package pkg with the given action
CallsFor(made, pkg, action) ==
    {i \in 1 .. Len(made) : made[i].pkg = pkg /\ made[i].action = action}
\* register_transaction of a DnfBackend returns in this step
Registered == backend'.count # backend.count /\ backend.via = "backend"

OfVersion(v) ==
    {i \in 1 .. Len(StoreData) :
        /\ "version" \in DOMAIN StoreData[i]
        /\ StoreData[i].version[1] = v}

\* C35: after a transaction that installs the new version of a package and
\* removes the old one, on a log that held the old version's record, the
\* new version's record is open and the old version's record is removed.
C35_UpgradeLeavesNewVersionOpen ==
    (/\ backend.txn = <<Upgrade>>
     /\ backend.result \in {"True", "None"}
     /\ StoreParses
     /\ OfVersion(PkgOld.version) # {})
       => /\ \E j \in OfVersion(PkgNew.version) : ~StoreData[j].removed
          /\ \A i \in OfVersion(PkgOld.version) : StoreData[i].removed

\* C37: in a process without root privilege no PackageLogger is set on the
\* system root, whatever was constructed, set, saved or read from the
\* plugin's file, and no record of scope "system" is written.
C37_UnprivilegedNeverSystem ==
    euid # 0
       => /\ \A l \in Loggers : data_dir[l] # SystemRoot
          /\ StoreParses
                => \A i \in 1 .. Len(StoreData) : StoreData[i].scope # "system"

\* C36: every log_package call that was started returns, whichever threads
\* and processes call at the same time: the mirror's lock is taken without
\* the store's, and the thread lock is taken again by its owner.
C36_WritersMakeProgress ==
    \A t \in Threads : (pc[t] # "idle") ~> (pc[t] = "idle")

\* two writers are inside calls at once: one rewrites the mirror, holding the
\* thread lock a second time and the lock of packages.toml, while a writer of
\* another process holds the lock of packages.json
C36_Witness ==
    /\ toml
    /\ pc[1] = "t_rename"
    /\ thread_lock[LoggerOf[1]] = <<1, 2>>
    /\ pc[3] = "rename"

====
